---- MODULE Spec2Model ----
(***************************************************************************)
(* Pattern-based log triage engine of DevOps-GPT (src/simple_app.py,       *)
(* class MistralAgent) and the entry points that feed it.                  *)
(*                                                                         *)
(* A log line is a sequence of text fragments.  Every regular expression   *)
(* and keyword test of the source is an operator that says which fragments *)
(* (and, for patterns with ".*", which ordered pairs of fragments) it      *)
(* matches.                                                                *)
(***************************************************************************)
EXTENDS Integers, Sequences, FiniteSets, TLC

\* ------------------------------------------------------------------ bounds
MaxLen == 2          \* longest batch of freely chosen lines
MaxRun == 10         \* longest run of one repeated line in a run batch
MaxTail == 3         \* longest second run of a run batch
MaxCalls == 2        \* analyze_logs invocations on one input
MaxCallers == 2      \* callers with an invocation on the shared agent
MaxHead == 21        \* longest first run of a long batch
MaxBody == 10        \* longest second run of a long batch
MaxIps == 11         \* distinct source addresses of an address batch
MaxSockets == 2      \* websockets that connect to /ws
MaxEdits == 2        \* longest edits list and deletes list of a request

\* ------------------------------------------------------- text fragments
\* the source addresses of the inputs and their rhost=<id> fragments
\* the k-th of the further source addresses, 10.0.1.k
IpOf(k) == "10.0.1." \o ToString(k)
RhostIds == { "192.168.1.100", "10.0.0.50" } \cup { IpOf(k) : k \in 1..MaxIps }
RhostOf(f) == CHOOSE id \in RhostIds : f = "rhost=" \o id
RhostFragments == { "rhost=" \o id : id \in RhostIds }
\* Fragments a line is made of.  Upper(f) is f.upper() and Lower(f) is
\* f.lower() as far as the keywords of the source can tell them apart: the
\* sets below list, per test of the source, the fragments the test accepts.
Fragments ==
  { "2024-01-15 10:30:47", "[CRITICAL]", "[ERROR]", "[WARNING]", "[INFO]",
    "fatal", "sshd", "vsftpd", "authentication failure", "AUTHENTICATION FAILURE",
    "user=root",
    "check pass; user unknown",
    "GET", "HTTP/1.1\" 404", "HTTP/1.1\" 500", "request_time",
    "deployment", "database", "timeout", "service unavailable",
    "systemd", "connection refused", "disk full", "Port 8080 already in use by process 1234",
    "hello" } \cup RhostFragments

\* re.search(p, log, re.IGNORECASE) for some p of error_patterns
ErrorFragments ==
  { "[CRITICAL]", "[ERROR]", "fatal", "authentication failure",
    "AUTHENTICATION FAILURE", "timeout", "connection refused",
    "Port 8080 already in use by process 1234" }

\* re.search(p, log, re.IGNORECASE) for some p of warning_patterns
WarningFragments == { "[WARNING]" }

\* re.search(p, log, re.IGNORECASE) for some p of info_patterns
InfoFragments == { "[INFO]" }

\* crit in log.upper() for crit in ['CRITICAL', 'FATAL', 'ALERT']
CriticalFragments == { "[CRITICAL]", "fatal" }

Has(log, S) == \E k \in 1..Len(log) : log[k] \in S

\* a fragment of S1 followed, later in the line, by a fragment of S2
HasThen(log, S1, S2) ==
  \E k \in 1..Len(log) : \E m \in 1..Len(log) :
     k < m /\ log[k] \in S1 /\ log[m] \in S2

MatchesError(log) == Has(log, ErrorFragments)
MatchesWarning(log) == Has(log, WarningFragments)
MatchesInfo(log) == Has(log, InfoFragments)
IsCritical(log) == Has(log, CriticalFragments)

\* ------------------------------------------ _get_specific_patterns
\* 'sshd.*authentication failure', re.IGNORECASE
SshAuthFailure(log) ==
  HasThen(log, {"sshd"}, {"authentication failure", "AUTHENTICATION FAILURE"})
\* 'check pass; user unknown', re.IGNORECASE
UnknownUser(log) == Has(log, {"check pass; user unknown"})
\* r'rhost=([\d\.\-\w]+)': the identifier of the first rhost= of the line
FirstRhost(log) ==
  LET k == CHOOSE k \in 1..Len(log) :
             /\ log[k] \in RhostFragments
             /\ \A m \in 1..(k-1) : log[m] \notin RhostFragments
  IN RhostOf(log[k])
\* r'user=root'
RootAccess(log) == Has(log, {"user=root"})
\* r'HTTP/\d\.\d\"\s+4\d\d' and r'HTTP/\d\.\d\"\s+5\d\d'
Is4xx(log) == Has(log, {"HTTP/1.1\" 404"})
Is5xx(log) == Has(log, {"HTTP/1.1\" 500"})
\* r'request_time|response_time.*[1-9]\d{3,}'
SlowRequest(log) == Has(log, {"request_time"})
\* r'deploy|container.*failed|image.*pull.*error'
DeploymentError(log) == Has(log, {"deployment"})
\* r'database|sql|connection.*pool|deadlock'
DatabaseError(log) == Has(log, {"database"})
\* r'api.*error|endpoint.*failed|service.*unavailable'
ApiError(log) == Has(log, {"service unavailable"})
\* r'slow.*query|timeout|memory.*leak'
PerformanceIssue(log) == Has(log, {"timeout"})
\* r'systemd|service.*failed|daemon.*error'
ServiceFailure(log) == Has(log, {"systemd"})
\* r'out.*of.*memory|disk.*full|cpu.*usage'
ResourceIssue(log) == Has(log, {"disk full"})
\* r'network.*unreachable|dns.*error|connection.*refused'
NetworkIssue(log) == Has(log, {"connection refused"})

\* ------------------------------------------------- _detect_log_type
\* any(p in log.lower() for p in ['sshd','authentication','login','password','security'])
SecurityIndicator(log) ==
  Has(log, {"sshd", "authentication failure", "AUTHENTICATION FAILURE"})
\* any(p in log for p in ['GET','POST','HTTP','200','404','500']) or a dotted quad
WebIndicator(log) ==
  Has(log, {"GET", "HTTP/1.1\" 404", "HTTP/1.1\" 500"} \cup RhostFragments)
\* any(p in log.lower() for p in ['deploy','container','docker','kubernetes','application'])
AppIndicator(log) == Has(log, {"deployment"})
\* mutant: the keyword 'process' left out of the system keywords
SystemIndicatorNoProcess(log) ==
  Has(log, {"systemd", "service unavailable"})
\* any(p in log.lower() for p in ['kernel','systemd','service','daemon','process'])
SystemIndicator(log) ==
  Has(log, {"systemd", "service unavailable",
            "Port 8080 already in use by process 1234"})

\* -------------------------------------------------------- context hints
\* None is the absent hint (context = None), "" the empty string.
None == "None"
Hints ==
  { None, "", "ssh", "NGINX access", "webapp", "deploy", "kernel",
    "Multi-type failure simulation" }

\* keyword in context.lower(), per keyword group of _detect_log_type
HintSecurity == { "ssh" }                        \* 'security','auth','ssh','login'
HintWeb == { "NGINX access", "webapp" }          \* 'web','http','nginx','apache'
HintApp == { "webapp", "deploy" }                \* 'app','application','deploy'
HintSystem == { "kernel" }                       \* 'system','kernel','service'

\* bool(context): None and "" are falsy
Truthy(context) == context # None /\ context # ""

RECURSIVE CountIf(_, _, _)
\* number of the first n lines of logs that satisfy the indicator named ind
Indicator(ind, log) ==
  CASE ind = "security" -> SecurityIndicator(log)
    [] ind = "web" -> WebIndicator(log)
    [] ind = "application" -> AppIndicator(log)
    [] OTHER -> SystemIndicator(log)
CountIf(ind, logs, n) ==
  IF n = 0 THEN 0
  ELSE CountIf(ind, logs, n - 1) + (IF Indicator(ind, logs[n]) THEN 1 ELSE 0)

\* mutant: a window of 50 lines, like the one of the provider prompt
DetectWindowOfPrompt == 50
DetectWindow == 20   \* logs[:20]

Min(a, b) == IF a < b THEN a ELSE b
Max(a, b) == IF a > b THEN a ELSE b

\* mutant: the chain after max() tested in the opposite order
DetectByContentLastWins(logs) ==
  LET n == Min(Len(logs), DetectWindow)
      security_indicators == CountIf("security", logs, n)
      web_indicators == CountIf("web", logs, n)
      app_indicators == CountIf("application", logs, n)
      system_indicators == CountIf("system", logs, n)
      max_indicators == Max(Max(security_indicators, web_indicators),
                            Max(app_indicators, system_indicators))
  IN IF max_indicators = 0 THEN "general"
     ELSE IF system_indicators = max_indicators THEN "system"
     ELSE IF app_indicators = max_indicators THEN "application"
     ELSE IF web_indicators = max_indicators THEN "web"
     ELSE "security"
\* the content scoring of _detect_log_type (no hint group matched)
DetectByContent(logs) ==
  LET n == Min(Len(logs), DetectWindow)
      security_indicators == CountIf("security", logs, n)
      web_indicators == CountIf("web", logs, n)
      app_indicators == CountIf("application", logs, n)
      system_indicators == CountIf("system", logs, n)
      max_indicators == Max(Max(security_indicators, web_indicators),
                            Max(app_indicators, system_indicators))
  IN IF max_indicators = 0 THEN "general"
     ELSE IF security_indicators = max_indicators THEN "security"
     ELSE IF web_indicators = max_indicators THEN "web"
     ELSE IF app_indicators = max_indicators THEN "application"
     ELSE "system"

\* mutant: the content scoring consulted before the hint
DetectLogTypeContentFirst(logs, context) ==
  IF DetectByContent(logs) # "general" THEN DetectByContent(logs)
  ELSE IF Truthy(context) /\ context \in HintSecurity THEN "security"
  ELSE IF Truthy(context) /\ context \in HintWeb THEN "web"
  ELSE IF Truthy(context) /\ context \in HintApp THEN "application"
  ELSE IF Truthy(context) /\ context \in HintSystem THEN "system"
  ELSE "general"
DetectLogType(logs, context) ==
  IF Truthy(context) /\ context \in HintSecurity THEN "security"
  ELSE IF Truthy(context) /\ context \in HintWeb THEN "web"
  ELSE IF Truthy(context) /\ context \in HintApp THEN "application"
  ELSE IF Truthy(context) /\ context \in HintSystem THEN "system"
  ELSE DetectByContent(logs)

\* ------------------------------------------------ analysis_results
\* The dict analysis_results.  exc is not a key of the dict: it records the
\* exception a statement of the pass raised ("" while none was raised).
\* mutant: total_logs initialised to 0 like the other counters
BaseResultsZeroTotal(logs, log_type) ==
  [ total_logs |-> 0, log_type |-> log_type,
    error_count |-> 0, warning_count |-> 0, info_count |-> 0,
    critical_issues |-> <<>>, error_issues |-> <<>>,
    warning_issues |-> <<>>, info_issues |-> <<>>,
    exc |-> "" ]
BaseResults(logs, log_type) ==
  [ total_logs |-> Len(logs), log_type |-> log_type,
    error_count |-> 0, warning_count |-> 0, info_count |-> 0,
    critical_issues |-> <<>>, error_issues |-> <<>>,
    warning_issues |-> <<>>, info_issues |-> <<>>,
    exc |-> "" ]

TypeCounters(log_type) ==
  CASE log_type = "security" ->
         [ security_events |-> 0, auth_failures |-> 0,
           brute_force_attempts |-> 0, unknown_users |-> 0,
           suspicious_ips |-> {}, root_attempts |-> 0,
           security_issues |-> <<>>, suspicious_activities |-> <<>> ]
    [] log_type = "application" ->
         [ deployment_issues |-> 0, performance_issues |-> 0,
           database_issues |-> 0, api_errors |-> 0 ]
    [] log_type = "system" ->
         [ resource_issues |-> 0, service_failures |-> 0,
           disk_issues |-> 0, network_issues |-> 0 ]
    [] log_type = "web" ->
         [ http_errors |-> 0, 4xx_errors |-> 0, 5xx_errors |-> 0,
           slow_requests |-> 0 ]
    [] OTHER -> << >>

InitialResults(logs, log_type) ==
  BaseResults(logs, log_type) @@ TypeCounters(log_type)

\* results[k] += 1: KeyError when the dict has no key k
Inc(r, k) ==
  IF r.exc # "" THEN r
  ELSE IF k \in DOMAIN r THEN [r EXCEPT ![k] = @ + 1]
  ELSE [r EXCEPT !.exc = "KeyError"]
\* results[k].append(log)
Add(r, k, log) ==
  IF r.exc # "" THEN r
  ELSE IF k \in DOMAIN r THEN [r EXCEPT ![k] = Append(@, log)]
  ELSE [r EXCEPT !.exc = "KeyError"]
\* results[k].add(id)
AddToSet(r, k, id) ==
  IF r.exc # "" THEN r
  ELSE IF k \in DOMAIN r THEN [r EXCEPT ![k] = @ \cup {id}]
  ELSE [r EXCEPT !.exc = "KeyError"]
\* results.get(k, 0)
Get(r, k) == IF k \in DOMAIN r THEN r[k] ELSE 0

\* mutant: three independent "if" statements instead of if / elif / elif
GeneralStepIndependent(r, log) ==
  LET r1 == IF MatchesError(log)
            THEN IF IsCritical(log)
                 THEN Add(Inc(r, "error_count"), "critical_issues", log)
                 ELSE Add(Inc(r, "error_count"), "error_issues", log)
            ELSE r
      r2 == IF MatchesWarning(log)
            THEN Add(Inc(r1, "warning_count"), "warning_issues", log)
            ELSE r1
  IN IF MatchesInfo(log)
     THEN Add(Inc(r2, "info_count"), "info_issues", log)
     ELSE r2
\* the general pattern analysis of one line (if / elif / elif)
GeneralStep(r, log) ==
  IF MatchesError(log)
  THEN IF IsCritical(log)
       THEN Add(Inc(r, "error_count"), "critical_issues", log)
       ELSE Add(Inc(r, "error_count"), "error_issues", log)
  ELSE IF MatchesWarning(log)
  THEN Add(Inc(r, "warning_count"), "warning_issues", log)
  ELSE IF MatchesInfo(log)
  THEN Add(Inc(r, "info_count"), "info_issues", log)
  ELSE r

\* mutant: the identifier and the root test applied to every line, outside
\* the auth-failure branch
SecurityRulesUnnested(log, r) ==
  LET r1 == IF SshAuthFailure(log)
            THEN Add(Inc(Inc(r, "auth_failures"), "security_events"),
                     "security_issues", log)
            ELSE IF UnknownUser(log)
            THEN Add(Inc(Inc(r, "unknown_users"), "security_events"),
                     "suspicious_activities", log)
            ELSE r
      r2 == IF Has(log, RhostFragments)
            THEN AddToSet(r1, "suspicious_ips", FirstRhost(log))
            ELSE r1
  IN IF RootAccess(log) THEN Inc(r2, "root_attempts") ELSE r2
\* the branch log_type == 'security'
SecurityRules(log, r) ==
  IF SshAuthFailure(log)
  THEN LET r1 == Add(Inc(Inc(r, "auth_failures"), "security_events"),
                     "security_issues", log)
           r2 == IF Has(log, RhostFragments)
                 THEN AddToSet(r1, "suspicious_ips", FirstRhost(log))
                 ELSE r1
       IN IF RootAccess(log) THEN Inc(r2, "root_attempts") ELSE r2
  ELSE IF UnknownUser(log)
  THEN Add(Inc(Inc(r, "unknown_users"), "security_events"),
           "suspicious_activities", log)
  ELSE r

\* mutant: the web rules as independent "if" statements
WebRulesIndependent(log, r) ==
  LET r1 == IF Is4xx(log) THEN Inc(Inc(r, "4xx_errors"), "http_errors") ELSE r
      r2 == IF Is5xx(log) THEN Inc(Inc(r1, "5xx_errors"), "http_errors") ELSE r1
  IN IF SlowRequest(log) THEN Inc(r2, "slow_requests") ELSE r2
\* mutant: the 5xx branch without its http_errors increment
WebRulesServerErrorUncounted(log, r) ==
  IF Is4xx(log) THEN Inc(Inc(r, "4xx_errors"), "http_errors")
  ELSE IF Is5xx(log) THEN Inc(r, "5xx_errors")
  ELSE IF SlowRequest(log) THEN Inc(r, "slow_requests")
  ELSE r
\* the branch log_type == 'web'
WebRules(log, r) ==
  IF Is4xx(log) THEN Inc(Inc(r, "4xx_errors"), "http_errors")
  ELSE IF Is5xx(log) THEN Inc(Inc(r, "5xx_errors"), "http_errors")
  ELSE IF SlowRequest(log) THEN Inc(r, "slow_requests")
  ELSE r

\* the branch log_type == 'application'
ApplicationRules(log, r) ==
  IF DeploymentError(log) THEN Inc(r, "deployment_issues")
  ELSE IF DatabaseError(log) THEN Inc(r, "database_issues")
  ELSE IF ApiError(log) THEN Inc(r, "api_errors")
  ELSE IF PerformanceIssue(log) THEN Inc(r, "performance_issues")
  ELSE r

\* the branch log_type == 'system'
SystemRules(log, r) ==
  IF ServiceFailure(log) THEN Inc(r, "service_failures")
  ELSE IF ResourceIssue(log) THEN Inc(r, "resource_issues")
  ELSE IF NetworkIssue(log) THEN Inc(r, "network_issues")
  ELSE r

AnalyzeLogByType(log, log_type, r) ==
  CASE log_type = "security" -> SecurityRules(log, r)
    [] log_type = "web" -> WebRules(log, r)
    [] log_type = "application" -> ApplicationRules(log, r)
    [] log_type = "system" -> SystemRules(log, r)
    [] OTHER -> r

\* one iteration of "for log in logs"
LineStep(r, log, log_type) == AnalyzeLogByType(log, log_type, GeneralStep(r, log))

\* ------------------------------------------------- _determine_status
\* mutant: the security threshold written with > instead of >=
DomainRuleStrict(r, log_type) ==
  CASE log_type = "security" ->
         IF Get(r, "brute_force_attempts") > 0 \/ Get(r, "auth_failures") > 10
         THEN <<"CRITICAL", "HIGH">>
         ELSE IF Get(r, "auth_failures") >= 3 \/ Get(r, "unknown_users") >= 3
         THEN <<"ERROR", "MEDIUM">>
         ELSE <<>>
    [] log_type = "web" ->
         IF Get(r, "5xx_errors") >= 10 THEN <<"CRITICAL", "HIGH">>
         ELSE IF Get(r, "5xx_errors") > 0 \/ Get(r, "4xx_errors") >= 20
         THEN <<"ERROR", "MEDIUM">>
         ELSE <<>>
    [] log_type = "application" ->
         IF Get(r, "deployment_issues") > 0 THEN <<"ERROR", "MEDIUM">>
         ELSE IF Get(r, "database_issues") > 0 THEN <<"ERROR", "MEDIUM">>
         ELSE <<>>
    [] log_type = "system" ->
         IF Get(r, "service_failures") > 0 THEN <<"ERROR", "MEDIUM">>
         ELSE IF Get(r, "resource_issues") > 0 THEN <<"WARNING", "MEDIUM">>
         ELSE <<>>
    [] OTHER -> <<>>
\* mutant: the client-error threshold written with > instead of >=
DomainRuleClientStrict(r, log_type) ==
  CASE log_type = "security" ->
         IF Get(r, "brute_force_attempts") > 0 \/ Get(r, "auth_failures") >= 10
         THEN <<"CRITICAL", "HIGH">>
         ELSE IF Get(r, "auth_failures") >= 3 \/ Get(r, "unknown_users") >= 3
         THEN <<"ERROR", "MEDIUM">>
         ELSE <<>>
    [] log_type = "web" ->
         IF Get(r, "5xx_errors") >= 10 THEN <<"CRITICAL", "HIGH">>
         ELSE IF Get(r, "5xx_errors") > 0 \/ Get(r, "4xx_errors") > 20
         THEN <<"ERROR", "MEDIUM">>
         ELSE <<>>
    [] log_type = "application" ->
         IF Get(r, "deployment_issues") > 0 THEN <<"ERROR", "MEDIUM">>
         ELSE IF Get(r, "database_issues") > 0 THEN <<"ERROR", "MEDIUM">>
         ELSE <<>>
    [] log_type = "system" ->
         IF Get(r, "service_failures") > 0 THEN <<"ERROR", "MEDIUM">>
         ELSE IF Get(r, "resource_issues") > 0 THEN <<"WARNING", "MEDIUM">>
         ELSE <<>>
    [] OTHER -> <<>>
\* mutant: the system rules in the opposite order
DomainRuleResourceFirst(r, log_type) ==
  CASE log_type = "security" ->
         IF Get(r, "brute_force_attempts") > 0 \/ Get(r, "auth_failures") >= 10
         THEN <<"CRITICAL", "HIGH">>
         ELSE IF Get(r, "auth_failures") >= 3 \/ Get(r, "unknown_users") >= 3
         THEN <<"ERROR", "MEDIUM">>
         ELSE <<>>
    [] log_type = "web" ->
         IF Get(r, "5xx_errors") >= 10 THEN <<"CRITICAL", "HIGH">>
         ELSE IF Get(r, "5xx_errors") > 0 \/ Get(r, "4xx_errors") >= 20
         THEN <<"ERROR", "MEDIUM">>
         ELSE <<>>
    [] log_type = "application" ->
         IF Get(r, "deployment_issues") > 0 THEN <<"ERROR", "MEDIUM">>
         ELSE IF Get(r, "database_issues") > 0 THEN <<"ERROR", "MEDIUM">>
         ELSE <<>>
    [] log_type = "system" ->
         IF Get(r, "resource_issues") > 0 THEN <<"WARNING", "MEDIUM">>
         ELSE IF Get(r, "service_failures") > 0 THEN <<"ERROR", "MEDIUM">>
         ELSE <<>>
    [] OTHER -> <<>>
\* the log-type rules; <<>> when none of them returns
DomainRule(r, log_type) ==
  CASE log_type = "security" ->
         IF Get(r, "brute_force_attempts") > 0 \/ Get(r, "auth_failures") >= 10
         THEN <<"CRITICAL", "HIGH">>
         ELSE IF Get(r, "auth_failures") >= 3 \/ Get(r, "unknown_users") >= 3
         THEN <<"ERROR", "MEDIUM">>
         ELSE <<>>
    [] log_type = "web" ->
         IF Get(r, "5xx_errors") >= 10 THEN <<"CRITICAL", "HIGH">>
         ELSE IF Get(r, "5xx_errors") > 0 \/ Get(r, "4xx_errors") >= 20
         THEN <<"ERROR", "MEDIUM">>
         ELSE <<>>
    [] log_type = "application" ->
         IF Get(r, "deployment_issues") > 0 THEN <<"ERROR", "MEDIUM">>
         ELSE IF Get(r, "database_issues") > 0 THEN <<"ERROR", "MEDIUM">>
         ELSE <<>>
    [] log_type = "system" ->
         IF Get(r, "service_failures") > 0 THEN <<"ERROR", "MEDIUM">>
         ELSE IF Get(r, "resource_issues") > 0 THEN <<"WARNING", "MEDIUM">>
         ELSE <<>>
    [] OTHER -> <<>>

\* the rules on the general counters
\* mutant: the warning_count test left out
GeneralRuleNoWarning(r) ==
  IF r.error_count > 0 THEN <<"ERROR", "MEDIUM">>
  ELSE <<"HEALTHY", "LOW">>
\* mutant: the warning count consulted before the error count
GeneralRuleWarningFirst(r) ==
  IF r.warning_count > 0 THEN <<"WARNING", "LOW">>
  ELSE IF r.error_count > 0 THEN <<"ERROR", "MEDIUM">>
  ELSE <<"HEALTHY", "LOW">>
GeneralRule(r) ==
  IF r.error_count > 0 THEN <<"ERROR", "MEDIUM">>
  ELSE IF r.warning_count > 0 THEN <<"WARNING", "LOW">>
  ELSE <<"HEALTHY", "LOW">>

\* mutant: the log-type rules consulted before the critical-issue rule
DetermineStatusDomainFirst(r, log_type) ==
  IF DomainRule(r, log_type) # <<>> THEN DomainRule(r, log_type)
  ELSE IF r.critical_issues # <<>> THEN <<"CRITICAL", "HIGH">>
  ELSE GeneralRule(r)
DetermineStatus(r, log_type) ==
  IF r.critical_issues # <<>> THEN <<"CRITICAL", "HIGH">>
  ELSE IF DomainRule(r, log_type) # <<>> THEN DomainRule(r, log_type)
  ELSE GeneralRule(r)

\* ----------------------------------------------- list(set), seq[:n]
\* list(a_set_of_str) enumerates the set in the order of the string hashes,
\* which the interpreter salts per process: hash_seed is the order the
\* running process gives the identifiers.
RECURSIVE Filter(_, _)
Filter(seq, S) ==
  IF seq = <<>> THEN <<>>
  ELSE IF Head(seq) \in S THEN <<Head(seq)>> \o Filter(Tail(seq), S)
  ELSE Filter(Tail(seq), S)
ListOfSet(S, seed) == Filter(seed, S)
HashSeeds == { <<"192.168.1.100", "10.0.0.50">>, <<"10.0.0.50", "192.168.1.100">> }

\* seq[:n]
Take(seq, n) == SubSeq(seq, 1, Min(Len(seq), n))
\* seq[-n:]
Last(seq, n) == SubSeq(seq, Max(1, Len(seq) - n + 1), Len(seq))

SuspiciousIps(r) == IF "suspicious_ips" \in DOMAIN r THEN r.suspicious_ips ELSE {}

\* ------------------------------------------ _generate_recommendations
\* A recommendation is the sequence of its text parts (the f-string of the
\* IP-blocking entry has the listed identifiers as further parts).
\* the entries the rules append to recommendations, in rule order
RecsFired(r, log_type, seed) ==
  LET specific ==
        CASE log_type = "security" ->
               (IF Get(r, "auth_failures") >= 5
                THEN << <<"High number of authentication failures detected">>,
                        <<"Possible brute force attack in progress">> >>
                ELSE <<>>)
               \o (IF SuspiciousIps(r) # {}
                   THEN << <<"Block suspicious IPs:">>
                           \o Take(ListOfSet(SuspiciousIps(r), seed), 3) >>
                   ELSE <<>>)
          [] log_type = "web" ->
               (IF Get(r, "5xx_errors") > 0
                THEN << <<"Server errors detected - check application health">>,
                        <<"Monitor application performance and resources">> >>
                ELSE <<>>)
               \o (IF Get(r, "slow_requests") > 0
                   THEN << <<"Slow requests detected - optimize performance">> >>
                   ELSE <<>>)
          [] log_type = "application" ->
               (IF Get(r, "deployment_issues") > 0
                THEN << <<"Deployment issues detected">>,
                        <<"Check container and service configurations">> >>
                ELSE <<>>)
               \o (IF Get(r, "database_issues") > 0
                   THEN << <<"Database connectivity issues">> >>
                   ELSE <<>>)
          [] log_type = "system" ->
               (IF Get(r, "service_failures") > 0
                THEN << <<"System service failures detected">> >>
                ELSE <<>>)
               \o (IF Get(r, "resource_issues") > 0
                   THEN << <<"System resource issues detected">> >>
                   ELSE <<>>)
          [] OTHER -> <<>>
      general == IF r.error_count > 0
                 THEN << <<"System errors require attention">> >>
                 ELSE <<>>
  IN specific \o general

\* the entries the same rules append to fixes
FixesFired(r, log_type) ==
  LET specific ==
        CASE log_type = "security" ->
               (IF Get(r, "auth_failures") >= 5
                THEN << "Configure fail2ban: sudo apt-get install fail2ban",
                        "Disable password authentication, use SSH keys",
                        "Change default SSH port from 22" >>
                ELSE <<>>)
               \o (IF SuspiciousIps(r) # {}
                   THEN << "Block IPs with iptables or firewall rules" >>
                   ELSE <<>>)
          [] log_type = "web" ->
               (IF Get(r, "5xx_errors") > 0
                THEN << "Check application logs for detailed errors",
                        "Restart application services if needed",
                        "Verify database connectivity" >>
                ELSE <<>>)
               \o (IF Get(r, "slow_requests") > 0
                   THEN << "Analyze slow query logs", "Add caching layers",
                           "Optimize database queries" >>
                   ELSE <<>>)
          [] log_type = "application" ->
               (IF Get(r, "deployment_issues") > 0
                THEN << "Verify image availability and versions",
                        "Check resource allocations",
                        "Review deployment scripts" >>
                ELSE <<>>)
               \o (IF Get(r, "database_issues") > 0
                   THEN << "Check database service status",
                           "Verify connection strings",
                           "Monitor database performance" >>
                   ELSE <<>>)
          [] log_type = "system" ->
               (IF Get(r, "service_failures") > 0
                THEN << "Check service status: systemctl status <service>",
                        "Review service logs: journalctl -u <service>",
                        "Restart failed services if needed" >>
                ELSE <<>>)
               \o (IF Get(r, "resource_issues") > 0
                   THEN << "Check disk space: df -h",
                           "Monitor memory usage: free -h",
                           "Check CPU usage: top or htop" >>
                   ELSE <<>>)
          [] OTHER -> <<>>
      general == IF r.error_count > 0
                 THEN << "Review error logs for patterns",
                         "Check system health and resources" >>
                 ELSE <<>>
  IN specific \o general

\* mutant: the positive entries appended without the "if not recommendations"
GenerateRecommendationsUnguarded(r, log_type, seed) ==
  << Append(RecsFired(r, log_type, seed), <<"No critical issues detected">>),
     Append(FixesFired(r, log_type), "Continue monitoring system health") >>
\* returns (recommendations, fixes)
GenerateRecommendations(r, log_type, seed) ==
  LET recommendations == RecsFired(r, log_type, seed)
      fixes == FixesFired(r, log_type)
  IN IF recommendations = <<>>
     THEN << << <<"No critical issues detected">> >>,
             Append(fixes, "Continue monitoring system health") >>
     ELSE << recommendations, fixes >>

\* ---------------------------------------------------- _create_root_cause
\* The '; '-joined clauses, each "<count> <label>" (or, for the identifiers,
\* "Suspicious activity from <count> IPs").
Clause(n, label) == [count |-> n, label |-> label]
CreateRootCause(r, log_type) ==
  LET specific ==
        CASE log_type = "security" ->
               (IF Get(r, "auth_failures") > 0
                THEN <<Clause(r.auth_failures, "authentication failures")>>
                ELSE <<>>)
               \o (IF SuspiciousIps(r) # {}
                   THEN <<Clause(Cardinality(r.suspicious_ips),
                                 "Suspicious activity from IPs")>>
                   ELSE <<>>)
          [] log_type = "web" ->
               (IF Get(r, "5xx_errors") > 0
                THEN <<Clause(r["5xx_errors"], "server errors")>> ELSE <<>>)
               \o (IF Get(r, "4xx_errors") > 0
                   THEN <<Clause(r["4xx_errors"], "client errors")>> ELSE <<>>)
          [] log_type = "application" ->
               (IF Get(r, "deployment_issues") > 0
                THEN <<Clause(r.deployment_issues, "deployment issues")>>
                ELSE <<>>)
               \o (IF Get(r, "database_issues") > 0
                   THEN <<Clause(r.database_issues, "database problems")>>
                   ELSE <<>>)
          [] log_type = "system" ->
               (IF Get(r, "service_failures") > 0
                THEN <<Clause(r.service_failures, "service failures")>>
                ELSE <<>>)
               \o (IF Get(r, "resource_issues") > 0
                   THEN <<Clause(r.resource_issues, "resource problems")>>
                   ELSE <<>>)
          [] OTHER -> <<>>
      causes == specific \o (IF r.error_count > 0
                             THEN <<Clause(r.error_count, "general errors")>>
                             ELSE <<>>)
  IN IF causes # <<>> THEN causes
     ELSE <<Clause(0, "Normal " \o log_type \o " activity patterns")>>

\* ------------------------------------------------------- _create_summary
CreateSummary(r) ==
  [ total_logs |-> r.total_logs, log_type |-> r.log_type,
    error_count |-> r.error_count, warning_count |-> r.warning_count,
    info_count |-> r.info_count,
    critical_issues |-> Len(r.critical_issues) ]
  @@ (CASE r.log_type = "security" ->
             [ security_events |-> Get(r, "security_events"),
               auth_failures |-> Get(r, "auth_failures"),
               suspicious_ips |-> Cardinality(SuspiciousIps(r)) ]
        [] r.log_type = "web" ->
             [ http_errors |-> Get(r, "http_errors"),
               4xx_errors |-> Get(r, "4xx_errors"),
               5xx_errors |-> Get(r, "5xx_errors") ]
        [] r.log_type = "application" ->
             [ deployment_issues |-> Get(r, "deployment_issues"),
               database_issues |-> Get(r, "database_issues"),
               api_errors |-> Get(r, "api_errors") ]
        [] r.log_type = "system" ->
             [ service_failures |-> Get(r, "service_failures"),
               resource_issues |-> Get(r, "resource_issues"),
               network_issues |-> Get(r, "network_issues") ]
        [] OTHER -> << >>)

\* -------------------------------------------------------- _format_issues
\* mutant: the critical bucket returned without its [:3] cap
FormatIssuesUncapped(r, seed) ==
  [ critical |-> r.critical_issues,
    errors |-> Take(r.error_issues, 3),
    warnings |-> Take(r.warning_issues, 3) ]
  @@ (IF r.log_type = "security"
      THEN [ security |->
               Take(IF "security_issues" \in DOMAIN r THEN r.security_issues
                    ELSE <<>>, 5),
             suspicious_ips |-> Take(ListOfSet(SuspiciousIps(r), seed), 10) ]
      ELSE << >>)
\* mutant: the address bucket returned without its [:10] cap
FormatIssuesIpsUncapped(r, seed) ==
  [ critical |-> Take(r.critical_issues, 3),
    errors |-> Take(r.error_issues, 3),
    warnings |-> Take(r.warning_issues, 3) ]
  @@ (IF r.log_type = "security"
      THEN [ security |->
               Take(IF "security_issues" \in DOMAIN r THEN r.security_issues
                    ELSE <<>>, 5),
             suspicious_ips |-> ListOfSet(SuspiciousIps(r), seed) ]
      ELSE << >>)
FormatIssues(r, seed) ==
  [ critical |-> Take(r.critical_issues, 3),
    errors |-> Take(r.error_issues, 3),
    warnings |-> Take(r.warning_issues, 3) ]
  @@ (IF r.log_type = "security"
      THEN [ security |->
               Take(IF "security_issues" \in DOMAIN r THEN r.security_issues
                    ELSE <<>>, 5),
             suspicious_ips |-> Take(ListOfSet(SuspiciousIps(r), seed), 10) ]
      ELSE << >>)

\* ------------------------------------------ _create_type_specific_analysis
\* f"{x:.1f}" of x = http_errors / max(total_logs, 1) * 100, in tenths of a
\* percent, rounded half to even; the division raises when the divisor is 0.
RoundHalfEven(num, den) ==
  LET q == num \div den
      rest == 2 * (num % den)
  IN IF rest > den \/ (rest = den /\ q % 2 = 1) THEN q + 1 ELSE q
ErrorRate(http_errors, divisor) ==
  IF divisor = 0 THEN [exc |-> "ZeroDivisionError", tenths |-> 0]
  ELSE [exc |-> "", tenths |-> RoundHalfEven(http_errors * 1000, divisor)]

\* mutant: the division without the max(..., 1) guard
ErrorRateDivisorUnguarded(r) == r.total_logs
\* max(results['total_logs'], 1)
ErrorRateDivisor(r) == Max(r.total_logs, 1)

CreateTypeSpecificAnalysis(r, log_type) ==
  CASE log_type = "security" ->
         [ threat_level |-> IF Get(r, "auth_failures") >= 10 THEN "HIGH"
                            ELSE IF Get(r, "auth_failures") > 0 THEN "MEDIUM"
                            ELSE "LOW",
           attack_vectors |-> IF Get(r, "auth_failures") >= 5
                              THEN <<"Brute Force">> ELSE <<>>,
           affected_services |-> IF Get(r, "auth_failures") > 0
                                 THEN <<"SSH/SSHD">> ELSE <<>> ]
    [] log_type = "web" ->
         [ availability |-> IF Get(r, "5xx_errors") >= 10 THEN "DOWN"
                            ELSE IF Get(r, "5xx_errors") > 0 THEN "DEGRADED"
                            ELSE "UP",
           performance |-> IF Get(r, "slow_requests") > 0 THEN "SLOW"
                           ELSE "NORMAL",
           error_rate |-> ErrorRate(Get(r, "http_errors"), ErrorRateDivisor(r)) ]
    [] log_type = "application" ->
         [ deployment_status |-> IF Get(r, "deployment_issues") > 0
                                 THEN "FAILED" ELSE "SUCCESS",
           database_health |-> IF Get(r, "database_issues") > 0
                               THEN "ISSUES" ELSE "HEALTHY",
           api_status |-> IF Get(r, "api_errors") > 0 THEN "ERRORS"
                          ELSE "NORMAL" ]
    [] log_type = "system" ->
         [ service_health |-> IF Get(r, "service_failures") > 0
                              THEN "DEGRADED" ELSE "HEALTHY",
           resource_status |-> IF Get(r, "resource_issues") > 0
                               THEN "CRITICAL" ELSE "NORMAL",
           network_status |-> IF Get(r, "network_issues") > 0
                              THEN "ISSUES" ELSE "STABLE" ]
    [] OTHER ->
         [ general_health |-> IF r.error_count > 0 THEN "ISSUES"
                              ELSE "HEALTHY" ]

\* the exception the assembly of the result raises, "" if none
AssemblyExc(r, log_type) ==
  IF log_type = "web"
  THEN CreateTypeSpecificAnalysis(r, log_type).error_rate.exc
  ELSE ""

\* ----------------------------------- the return of _enhanced_pattern_analysis
\* log_type.title()
Title(log_type) ==
  CASE log_type = "security" -> "Security" [] log_type = "web" -> "Web"
    [] log_type = "application" -> "Application"
    [] log_type = "system" -> "System" [] OTHER -> "General"

AssembleResult(r, log_type, context, seed, now) ==
  [ status |-> DetermineStatus(r, log_type)[1],
    severity |-> DetermineStatus(r, log_type)[2],
    confidence |-> 9,                        \* 0.9, in tenths
    log_type |-> log_type,
    summary |-> CreateSummary(r),
    issues |-> FormatIssues(r, seed),
    root_cause |-> CreateRootCause(r, log_type),
    recommendations |-> GenerateRecommendations(r, log_type, seed)[1],
    fixes |-> GenerateRecommendations(r, log_type, seed)[2],
    type_specific_analysis |-> CreateTypeSpecificAnalysis(r, log_type),
    analysis_method |-> "enhanced_" \o log_type \o "_pattern_matching",
    timestamp |-> now,
    context |-> IF Truthy(context) THEN context
                ELSE Title(log_type) \o " log analysis" ]

\* --------------------------------------------- _parse_ai_text_response
\* Lines of the provider's reply.  The sets list the lines each test of
\* _parse_ai_text_response accepts.
AiLines ==
  { "Status: critical, severity HIGH", "An error occurred",
    "you should restart nginx", "All healthy. LOW risk" }
AiTexts ==
  { <<"Status: critical, severity HIGH", "you should restart nginx">>,
    <<"An error occurred">>, <<"All healthy. LOW risk">>, <<>> }
AiHas(text, S) == \E k \in 1..Len(text) : text[k] \in S

RECURSIVE SelectLines(_, _)
\* [line for line in logs if a fragment of S is in the line]
SelectLines(logs, S) ==
  IF logs = <<>> THEN <<>>
  ELSE IF Has(Head(logs), S) THEN <<Head(logs)>> \o SelectLines(Tail(logs), S)
  ELSE SelectLines(Tail(logs), S)

ParseAiTextResponse(ai_response, logs, now) ==
  LET recommendations ==
        Filter(ai_response, {"you should restart nginx"})
  IN
  [ status |-> IF AiHas(ai_response, {"Status: critical, severity HIGH"})
               THEN "CRITICAL"
               ELSE IF AiHas(ai_response, {"An error occurred"}) THEN "ERROR"
               ELSE IF AiHas(ai_response, {"All healthy. LOW risk"})
               THEN "HEALTHY"
               ELSE "WARNING",
    severity |-> IF AiHas(ai_response, {"Status: critical, severity HIGH"})
                 THEN "HIGH"
                 ELSE IF AiHas(ai_response, {"All healthy. LOW risk"})
                 THEN "LOW"
                 ELSE "MEDIUM",
    confidence |-> 7,
    summary |->
      [ total_logs |-> Len(logs),
        error_count |-> Len(SelectLines(logs, {"[ERROR]"})),
        warning_count |-> Len(SelectLines(logs, {"[WARNING]"})),
        critical_issues |-> Len(SelectLines(logs, {"[CRITICAL]", "fatal"})) ],
    issues |->
      [ critical |-> Take(SelectLines(logs, {"[CRITICAL]", "fatal"}), 3),
        errors |-> Take(SelectLines(logs, {"[ERROR]"}), 3),
        warnings |-> Take(SelectLines(logs, {"[WARNING]"}), 3) ],
    root_cause |-> <<Clause(0, "Analysis based on AI text parsing")>>,
    recommendations |->
      IF recommendations # <<>>
      THEN [k \in 1..Len(Take(recommendations, 5)) |-> <<recommendations[k]>>]
      ELSE << <<"Check logs for errors and warnings">> >>,
    fixes |-> <<"Review error messages and apply appropriate fixes">>,
    analysis_method |-> "mistral-ai-text-parsing",
    timestamp |-> now ]

\* ------------------------------------------------ MistralAgent.__init__
\* What start-up finds: whether "from mistralai import Mistral" succeeded,
\* the value of os.getenv('MISTRAL_API_KEY') (None when unset), and whether
\* Mistral(api_key=...) raises.
Placeholder == "your_actual_mistral_api_key_here"
ApiKeys == { None, "", Placeholder, "sk-live" }
Envs ==
  [ MISTRAL_AVAILABLE : BOOLEAN, MISTRAL_API_KEY : ApiKeys,
    client_raises : BOOLEAN ]

\* mutant: the placeholder key accepted like any other key
MockModeAnyKey(e) ==
  IF e.MISTRAL_AVAILABLE /\ Truthy(e.MISTRAL_API_KEY)
  THEN e.client_raises
  ELSE TRUE
\* self.mock_mode after __init__
MockMode(e) ==
  IF e.MISTRAL_AVAILABLE /\ Truthy(e.MISTRAL_API_KEY)
     /\ e.MISTRAL_API_KEY # Placeholder
  THEN e.client_raises
  ELSE TRUE

Unconfigured ==
  [ MISTRAL_AVAILABLE |-> FALSE, MISTRAL_API_KEY |-> None,
    client_raises |-> FALSE ]
Configured ==
  [ MISTRAL_AVAILABLE |-> TRUE, MISTRAL_API_KEY |-> "sk-live",
    client_raises |-> FALSE ]

\* ------------------------------------------------------------ the state
VARIABLES
  env,         \* what the module and MistralAgent.__init__ found at start-up
  inv,         \* the invocations in flight on the shared agent, per caller
  entry,       \* the entry point that received the request
  raw,         \* the logs value of the request, before cleaning
  logs,        \* the batch passed to MistralAgent.analyze_logs
  context,     \* the hint passed with it
  mock_mode,   \* MistralAgent.mock_mode
  hash_seed,   \* the string-hash order of the running process
  clock,       \* datetime.now()
  pc,          \* where the invocation stands
  outcome,     \* what the provider call did ("" when it was not made)
  ai,          \* the text of the provider's reply
  log_type,    \* the local log_type of _enhanced_pattern_analysis
  i,           \* number of lines "for log in logs" has processed
  results,     \* the local analysis_results
  result,      \* what analyze_logs returned
  prev,        \* what the previous invocation on the same input returned
  calls,       \* invocations started so far
  active_connections,  \* ConnectionManager.active_connections (Backend/app.py)
  websockets,  \* per websocket: its websocket_endpoint handler and its peer
  broadcasts,  \* per broadcasting endpoint: its ConnectionManager.broadcast
  request,     \* the HTTP request of the handler at work
  hpc,         \* where that handler stands
  response,    \* what it answered
  fs           \* the files of the host, by resolved path

\* the variables of the engine, of the connection manager and of the
\* HTTP handlers
engine == << env, inv, entry, raw, logs, context, mock_mode, hash_seed, clock,
             pc, outcome, ai, log_type, i, results, result, prev, calls >>
manager == << active_connections, websockets, broadcasts >>
http == << request, hpc, response, fs >>
vars == << engine, manager, http >>

NoResult == [analysis_method |-> "none"]

\* ------------------------------------------------------------ the inputs
L_critical ==
  <<"2024-01-15 10:30:47", "[CRITICAL]",
    "Port 8080 already in use by process 1234">>
L_error == <<"[ERROR]", "timeout">>
L_error_warn == <<"[ERROR]", "[WARNING]">>
L_warning == <<"[WARNING]", "disk full">>
L_info == <<"[INFO]", "deployment">>
L_auth_root ==
  <<"sshd", "authentication failure", "rhost=192.168.1.100", "user=root">>
L_auth == <<"sshd", "AUTHENTICATION FAILURE", "rhost=10.0.0.50">>
L_unknown == <<"sshd", "check pass; user unknown">>
\* an authentication failure that another service than sshd logged
L_ftp ==
  <<"vsftpd", "authentication failure", "rhost=10.0.0.50", "user=root">>
L_404 == <<"GET", "HTTP/1.1\" 404">>
L_500 == <<"GET", "HTTP/1.1\" 500", "database">>
\* access-log lines with the request_time field
L_slow == <<"GET", "request_time">>
L_slow_404 == <<"GET", "HTTP/1.1\" 404", "request_time">>
L_systemd == <<"systemd", "service unavailable">>
L_plain == <<"hello">>

Lines ==
  { L_critical, L_error_warn, L_warning, L_info, L_auth_root, L_auth,
    L_unknown, L_404, L_500, L_slow, L_slow_404, L_systemd, L_plain }

RECURSIVE SeqsUpTo(_, _)
\* the sequences over S of length at most n
SeqsUpTo(S, n) ==
  IF n = 0 THEN { <<>> }
  ELSE LET shorter == SeqsUpTo(S, n - 1)
       IN shorter \cup { Append(q, x) : q \in shorter, x \in S }

Batches == SeqsUpTo(Lines, MaxLen)

\* n copies of line
Run(line, n) == [k \in 1..n |-> line]
RunBatches ==
  { Run(a, m) \o Run(b, n) :
      a \in { L_auth_root, L_auth, L_unknown, L_critical, L_error, L_warning },
      b \in { L_auth, L_auth_root, L_ftp, L_unknown, L_plain },
      m \in 0..MaxRun, n \in 0..MaxTail }

\* ------------------------------------- the other components, at rest
\* Backend/app.py: the websockets that will connect to /ws and the endpoints
\* that await manager.broadcast(...)
Sockets == 1..MaxSockets
Broadcasters == { "trigger_rollback", "restart_deployment" }
NoConnection == 0
ManagerIdle ==
  /\ active_connections = <<>>
  /\ websockets = [w \in Sockets |-> [pc |-> "new", open |-> TRUE, got |-> {}]]
  /\ broadcasts = [b \in Broadcasters |->
                     [pc |-> "idle", idx |-> 0, connection |-> NoConnection,
                      start |-> <<>>, failed |-> {}]]

\* simple_app.py: _repo_root() and the files of the host.  A resolved path
\* is the sequence of its components; the host has no symbolic links.
Root == <<"srv", "app">>
InitialFiles ==
  { <<"srv", "app", "src", "f.py">>, <<"srv", "app-old", "f.py">>,
    <<"etc", "passwd">> }
InitialDirs ==
  { <<>>, <<"srv">>, <<"srv", "app">>, <<"srv", "app", "src">>,
    <<"srv", "app-old">>, <<"etc">> }
InitialFs ==
  [files |-> [p \in InitialFiles |-> "original"], dirs |-> InitialDirs]
NoRequest == [kind |-> "none"]
NoResponse == [status_code |-> 0]
HttpIdle ==
  /\ request = NoRequest
  /\ hpc = "idle"
  /\ response = NoResponse
  /\ fs = InitialFs

\* ----------------------------------------------------------- the actions
InitCommon ==
  /\ clock = 0
  /\ outcome = ""
  /\ ai = <<>>
  /\ log_type = "general"
  /\ i = 0
  /\ results = InitialResults(<<>>, "general")
  /\ result = NoResult
  /\ prev = NoResult
  /\ calls = 0
  /\ ManagerIdle
  /\ HttpIdle

\* the engine called directly: mock mode, freely chosen short batches
Init ==
  /\ InitCommon
  /\ env = Unconfigured
  /\ inv = <<>>
  /\ entry = "direct"
  /\ raw = [kind |-> "list", lines |-> <<>>]
  /\ logs \in Batches
  /\ context \in Hints
  /\ mock_mode = TRUE
  /\ hash_seed \in HashSeeds
  /\ pc = "idle"

\* MistralAgent.analyze_logs up to the provider call
Call ==
  /\ pc = "idle"
  /\ calls' = calls + 1
  /\ pc' = IF mock_mode THEN "detect" ELSE "provider"
  /\ UNCHANGED << manager, http, env, inv, entry, raw, logs, context, mock_mode, hash_seed, clock,
                  outcome, ai, log_type, i, results, result, prev >>

\* _enhanced_pattern_analysis up to the loop
Detect ==
  /\ pc = "detect"
  /\ log_type' = DetectLogType(logs, context)
  /\ results' = InitialResults(logs, DetectLogType(logs, context))
  /\ i' = 0
  /\ pc' = "loop"
  /\ UNCHANGED << manager, http, env, inv, entry, raw, logs, context, mock_mode, hash_seed, clock,
                  outcome, ai, result, prev, calls >>

\* one iteration of the loop
ProcessLine ==
  /\ pc = "loop"
  /\ i < Len(logs)
  /\ results' = LineStep(results, logs[i + 1], log_type)
  /\ i' = i + 1
  /\ pc' = IF results'.exc # "" THEN "raised" ELSE "loop"
  /\ UNCHANGED << manager, http, env, inv, entry, raw, logs, context, mock_mode, hash_seed, clock,
                  outcome, ai, log_type, result, prev, calls >>

\* the rest of _enhanced_pattern_analysis and the return of analyze_logs
Finish ==
  /\ pc = "loop"
  /\ i = Len(logs)
  /\ IF AssemblyExc(results, log_type) # ""
     THEN /\ pc' = "raised"
          /\ results' = [results EXCEPT !.exc = AssemblyExc(results, log_type)]
          /\ UNCHANGED << result, clock >>
     ELSE /\ pc' = "done"
          /\ result' = AssembleResult(results, log_type, context, hash_seed, clock)
          /\ clock' = clock + 1
          /\ UNCHANGED results
  /\ UNCHANGED << manager, http, env, inv, entry, raw, logs, context, mock_mode, hash_seed,
                  outcome, ai, log_type, i, prev, calls >>

\* the caller submits the same batch and hint again
Again ==
  /\ pc = "done"
  /\ calls < MaxCalls
  /\ prev' = result
  /\ pc' = "idle"
  /\ UNCHANGED << manager, http, env, inv, entry, raw, logs, context, mock_mode, hash_seed, clock,
                  outcome, ai, log_type, i, results, result, calls >>

\* the service process is restarted between two requests: the new
\* interpreter salts its string hashes afresh
Restart ==
  /\ pc = "idle"
  /\ calls > 0
  /\ hash_seed' \in HashSeeds \ {hash_seed}
  /\ UNCHANGED << manager, http, env, inv, entry, raw, logs, context, mock_mode, clock, pc,
                  outcome, ai, log_type, i, results, result, prev, calls >>

Next == Call \/ Detect \/ ProcessLine \/ Finish \/ Again \/ Restart

Spec == Init /\ [][Next]_vars

\* ------------------------------------------------------ the entry points
\* Text that cleaning removes: <TAB> and <SP> are whitespace, <SOH> is the
\* control character 0x01.
Whitespace == { "<TAB>", "<SP>" }
RECURSIVE LStrip(_)
LStrip(line) ==
  IF line # <<>> /\ Head(line) \in Whitespace THEN LStrip(Tail(line)) ELSE line
RECURSIVE RStrip(_)
RStrip(line) ==
  IF line # <<>> /\ line[Len(line)] \in Whitespace
  THEN RStrip(SubSeq(line, 1, Len(line) - 1)) ELSE line
\* str.strip()
Strip(line) == RStrip(LStrip(line))

\* clean_log_line of LogAnalysisRequest.validate_logs: 0x00-0x08 and
\* 0x0e-0x1f become spaces, then strip()
CleanLogLine(line) ==
  Strip([k \in 1..Len(line) |-> IF line[k] = "<SOH>" THEN "<SP>" ELSE line[k]])

NonEmpty(line) == line # <<>>

\* the cleaned lines of validate_logs that are not empty
CleanAll(lines) ==
  SelectSeq([k \in 1..Len(lines) |-> CleanLogLine(lines[k])], NonEmpty)

\* [line.strip() for line in lines if line.strip()]
StripAll(lines) ==
  SelectSeq([k \in 1..Len(lines) |-> Strip(lines[k])], NonEmpty)

\* LogAnalysisRequest.validate_logs of simple_app.py.  A str value is the
\* sequence of its lines (split on "\n"), so it has a newline iff it has
\* more than one line.
ValidateLogs(v) ==
  IF v.kind = "str"
  THEN IF Len(v.lines) > 1
       THEN IF CleanAll(v.lines) # <<>> THEN CleanAll(v.lines)
            ELSE << <<"No valid logs found">> >>
       ELSE IF CleanLogLine(v.lines[1]) # <<>> THEN <<CleanLogLine(v.lines[1])>>
            ELSE << <<"Empty log">> >>
  ELSE IF CleanAll(v.lines) # <<>> THEN CleanAll(v.lines)
       ELSE << <<"No valid logs found">> >>

\* the cleaning of the /analyze-logs endpoint: characters below 0x20 other
\* than \n, \t, \r are dropped, then strip()
RECURSIVE DropControl(_)
DropControl(line) ==
  IF line = <<>> THEN <<>>
  ELSE IF Head(line) = "<SOH>" THEN DropControl(Tail(line))
  ELSE <<Head(line)>> \o DropControl(Tail(line))
ValidLogs(lines) ==
  SelectSeq([k \in 1..Len(lines) |->
               IF Strip(lines[k]) # <<>> THEN Strip(DropControl(lines[k]))
               ELSE <<>>], NonEmpty)
ProcessingLimit == 1000   \* valid_logs[-1000:]

\* analyze_logs_raw
RawLogList(v) ==
  LET log_list == IF v.kind = "absent" THEN <<>> ELSE StripAll(v.lines)
  IN IF log_list = <<>> THEN << <<"No valid logs found">> >> ELSE log_list

\* logs_analyze (/logs/analyze)
CompatLogs(v) ==
  IF v.kind = "absent" THEN <<>>
  ELSE IF v.kind = "str" THEN StripAll(v.lines)
  ELSE v.lines

\* LogAnalysisRequest.validate_logs of Backend/models/schemas.py
SchemaValidateLogs(v) == StripAll(v.lines)

Entries ==
  { "/analyze-logs", "/analyze-logs-raw", "/logs/analyze", "/api/logs/analyze" }

\* the batch the entry point e passes to analyze_logs for the request value v
\* ("logs" is a required field of both request models)
Feeds(e, v) ==
  CASE e = "/analyze-logs" ->
         v.kind # "absent" /\ ValidLogs(ValidateLogs(v)) # <<>>
    [] e = "/api/logs/analyze" -> v.kind # "absent"
    [] OTHER -> TRUE
Cleaned(e, v) ==
  CASE e = "/analyze-logs" -> Last(ValidLogs(ValidateLogs(v)), ProcessingLimit)
    [] e = "/analyze-logs-raw" -> RawLogList(v)
    [] e = "/logs/analyze" -> CompatLogs(v)
    [] OTHER -> SchemaValidateLogs(v)

RawLines ==
  { <<>>, <<"<TAB>">>, <<"<SOH>">>, <<"<TAB>", "hello", "<SP>">>,
    L_critical, L_auth_root, L_404 }
BigInput == [kind |-> "list", lines |-> Run(L_plain, ProcessingLimit + 1)]
RawInputs ==
  { [kind |-> "absent", lines |-> <<>>], BigInput }
  \cup { [kind |-> "list", lines |-> q] : q \in SeqsUpTo(RawLines, MaxLen) }
  \cup { [kind |-> "str", lines |-> q] :
           q \in SeqsUpTo(RawLines, MaxLen) \ { <<>> } }

InitEntry ==
  /\ InitCommon
  /\ env = Unconfigured
  /\ inv = <<>>
  /\ entry \in Entries
  /\ raw \in RawInputs
  /\ logs = <<>>
  /\ context \in { None, "NGINX access" }
  /\ mock_mode = TRUE
  /\ hash_seed \in HashSeeds
  /\ pc = "request"

\* the entry point cleans the request and calls analyze_logs, or answers
\* without an analysis
Receive ==
  /\ pc = "request"
  /\ IF Feeds(entry, raw)
     THEN logs' = Cleaned(entry, raw) /\ pc' = "idle"
     ELSE logs' = logs /\ pc' = "answered"
  /\ UNCHANGED << manager, http, env, inv, entry, raw, context, mock_mode, hash_seed, clock,
                  outcome, ai, log_type, i, results, result, prev, calls >>

NextEntry == Receive \/ Call \/ Detect \/ ProcessLine \/ Finish

SpecEntry == InitEntry /\ [][NextEntry]_vars

\* ------------------------------------------------- threshold batches
InitRuns ==
  /\ InitCommon
  /\ env = Unconfigured
  /\ inv = <<>>
  /\ entry = "direct"
  /\ raw = [kind |-> "list", lines |-> <<>>]
  /\ logs \in RunBatches
  /\ context \in { None, "ssh" }
  /\ mock_mode = TRUE
  /\ hash_seed \in HashSeeds
  /\ pc = "idle"

NextRuns == Call \/ Detect \/ ProcessLine \/ Finish

SpecRuns == InitRuns /\ [][NextRuns]_vars

\* ------------------------------------------------- the provider path
\* What self.client.chat.complete and the parsing of its reply can do.
Outcomes ==
  { "raises",            \* the call raises (network, API error)
    "no_choices",        \* response.choices[0] raises IndexError
    "content_none",      \* json.loads(None) raises TypeError
    "json_not_object",   \* valid JSON that is no dict: item assignment raises
    "not_json",          \* json.loads raises JSONDecodeError
    "json_object" }      \* a JSON object

\* mutant: the outer handler narrowed to the errors of the call itself
ExceptRouteNarrow(o) ==
  CASE o = "json_object" -> "return"
    [] o = "not_json" -> "text"
    [] o = "raises" -> "fallback"
    [] OTHER -> "propagate"
\* the handler that takes the outcome: "except json.JSONDecodeError" parses
\* the text, "except Exception" falls back to the engine
ExceptRoute(o) ==
  CASE o = "json_object" -> "return"
    [] o = "not_json" -> "text"
    [] OTHER -> "fallback"

\* the JSON object of a successful reply
AiObject == [status |-> "ERROR", severity |-> "MEDIUM"]

\* _enhanced_pattern_analysis as a function of its arguments
RECURSIVE Classify(_, _, _)
Classify(batch, n, type) ==
  IF n = 0 THEN InitialResults(batch, type)
  ELSE LineStep(Classify(batch, n - 1, type), batch[n], type)
EnhancedPatternAnalysis(batch, hint, seed, now) ==
  AssembleResult(Classify(batch, Len(batch), DetectLogType(batch, hint)),
                 DetectLogType(batch, hint), hint, seed, now)

InitProvider ==
  /\ InitCommon
  /\ env \in { Unconfigured, Configured }
  /\ inv = <<>>
  /\ entry = "direct"
  /\ raw = [kind |-> "list", lines |-> <<>>]
  /\ logs \in Batches
  /\ context \in { None, "ssh", "NGINX access" }
  /\ mock_mode = MockMode(env)
  /\ hash_seed \in HashSeeds
  /\ pc = "idle"

\* the provider call returns or raises, and analyze_logs handles it
ProviderReturn ==
  /\ pc = "provider"
  /\ \E o \in Outcomes : \E text \in AiTexts :
       /\ (o # "not_json" => text = <<>>)
       /\ outcome' = o
       /\ ai' = text
       /\ CASE ExceptRoute(o) = "return" ->
                 /\ result' = [analysis_method |-> "mistral-ai",
                               processed_logs |-> Len(logs)] @@ AiObject
                 /\ pc' = "done"
                 /\ clock' = clock
            [] ExceptRoute(o) = "text" ->
                 /\ result' = ParseAiTextResponse(text, logs, clock)
                 /\ pc' = "done"
                 /\ clock' = clock + 1
            [] ExceptRoute(o) = "fallback" ->
                 /\ pc' = "detect"
                 /\ UNCHANGED << result, clock >>
            [] OTHER ->
                 /\ pc' = "raised"
                 /\ UNCHANGED << result, clock >>
  /\ UNCHANGED << manager, http, env, inv, entry, raw, logs, context, mock_mode, hash_seed,
                  log_type, i, results, prev, calls >>

NextProvider == Call \/ ProviderReturn \/ Detect \/ ProcessLine \/ Finish

SpecProvider == InitProvider /\ [][NextProvider]_vars

\* ------------------------------------------------------- long batches
\* Batches around the 20-line detection window and the web thresholds.
LongBatches ==
  { Run(a, m) \o Run(b, n) :
      a \in { L_404, L_plain },
      b \in { L_500, L_auth, L_systemd },
      m \in 0..MaxHead, n \in 0..MaxBody }

InitLong ==
  /\ InitCommon
  /\ env = Unconfigured
  /\ inv = <<>>
  /\ entry = "direct"
  /\ raw = [kind |-> "list", lines |-> <<>>]
  /\ logs \in LongBatches
  /\ context \in { None, "NGINX access" }
  /\ mock_mode = TRUE
  /\ hash_seed = <<"192.168.1.100", "10.0.0.50">>
  /\ pc = "idle"

NextLong == Call \/ Detect \/ ProcessLine \/ Finish

SpecLong == InitLong /\ [][NextLong]_vars

\* ------------------------------------------------ every start-up outcome
ConfigLines == { L_critical, L_auth_root, L_plain }

InitConfig ==
  /\ InitCommon
  /\ env \in Envs
  /\ mock_mode = MockMode(env)
  /\ inv = <<>>
  /\ entry = "direct"
  /\ raw = [kind |-> "list", lines |-> <<>>]
  /\ logs \in SeqsUpTo(ConfigLines, MaxLen)
  /\ context \in { None, "ssh" }
  /\ hash_seed = <<"192.168.1.100", "10.0.0.50">>
  /\ pc = "idle"

NextConfig == Call \/ ProviderReturn \/ Detect \/ ProcessLine \/ Finish

SpecConfig == InitConfig /\ [][NextConfig]_vars

\* ----------------------------- invocations interleaved on the shared agent
\* analyze_logs is a coroutine of the one module-level MistralAgent: while an
\* invocation awaits run_in_executor the event loop runs the others.  The
\* attributes of the agent (mock_mode, client) are written by __init__ only;
\* log_type, the loop position and analysis_results are locals of
\* _enhanced_pattern_analysis.  inv[p] holds the arguments and locals of the
\* invocation of caller p; overlapped records that another invocation was in
\* flight while p was.
Callers == 1..MaxCallers

SharedInputs ==
  { [logs |-> <<L_auth_root, L_auth>>, context |-> None],
    [logs |-> <<L_500, L_critical>>, context |-> "NGINX access"],
    [logs |-> <<L_warning>>, context |-> "kernel"] }
SharedOutcomes == { "raises", "not_json", "json_object" }
SharedAiText == <<"An error occurred", "you should restart nginx">>

\* mutant: analysis_results kept in one dict of the agent instead of a local
FrameOnAgent(p) == 1
\* the invocation whose frame holds the analysis_results that p updates
Frame(p) == p

InFlight(p) == inv[p].pc \in {"provider", "detect", "loop"}

\* analyze_logs as a function of its arguments and of what the provider did
AnalyzeLogsAlone(batch, hint, mock, o, text, seed, now) ==
  IF mock THEN EnhancedPatternAnalysis(batch, hint, seed, now)
  ELSE CASE ExceptRoute(o) = "return" ->
              [analysis_method |-> "mistral-ai",
               processed_logs |-> Len(batch)] @@ AiObject
         [] ExceptRoute(o) = "text" -> ParseAiTextResponse(text, batch, now)
         [] OTHER -> EnhancedPatternAnalysis(batch, hint, seed, now)

InitShared ==
  /\ InitCommon
  /\ env \in { Unconfigured, Configured }
  /\ mock_mode = MockMode(env)
  /\ inv \in [ Callers ->
                 { [ logs |-> x.logs, context |-> x.context, pc |-> "idle",
                     outcome |-> "", ai |-> <<>>, log_type |-> "general",
                     i |-> 0, results |-> InitialResults(<<>>, "general"),
                     result |-> NoResult, overlapped |-> FALSE ] :
                   x \in SharedInputs } ]
  /\ entry = "direct"
  /\ raw = [kind |-> "list", lines |-> <<>>]
  /\ logs = <<>>
  /\ context = None
  /\ hash_seed = <<"192.168.1.100", "10.0.0.50">>
  /\ pc = "shared"

\* caller p enters analyze_logs
CallOf(p) ==
  /\ inv[p].pc = "idle"
  /\ inv' = [ q \in Callers |->
                IF q = p
                THEN [ inv[p] EXCEPT
                         !.pc = IF mock_mode THEN "detect" ELSE "provider",
                         !.overlapped = \E o \in Callers \ {p} : InFlight(o) ]
                ELSE IF InFlight(q) THEN [inv[q] EXCEPT !.overlapped = TRUE]
                ELSE inv[q] ]
  /\ UNCHANGED << manager, http, env, entry, raw, logs, context, mock_mode, hash_seed, clock,
                  pc, outcome, ai, log_type, i, results, result, prev, calls >>

\* the awaited provider call of p completes and analyze_logs handles it
ProviderReturnOf(p) ==
  /\ inv[p].pc = "provider"
  /\ \E o \in SharedOutcomes :
       LET text == IF o = "not_json" THEN SharedAiText ELSE <<>>
       IN CASE ExceptRoute(o) = "return" ->
                 /\ inv' = [inv EXCEPT
                              ![p].outcome = o, ![p].ai = text,
                              ![p].result =
                                 [analysis_method |-> "mistral-ai",
                                  processed_logs |-> Len(inv[p].logs)]
                                 @@ AiObject,
                              ![p].pc = "done"]
                 /\ clock' = clock
            [] ExceptRoute(o) = "text" ->
                 /\ inv' = [inv EXCEPT
                              ![p].outcome = o, ![p].ai = text,
                              ![p].result =
                                 ParseAiTextResponse(text, inv[p].logs, clock),
                              ![p].pc = "done"]
                 /\ clock' = clock + 1
            [] ExceptRoute(o) = "fallback" ->
                 /\ inv' = [inv EXCEPT ![p].outcome = o, ![p].ai = text,
                                       ![p].pc = "detect"]
                 /\ clock' = clock
            [] OTHER ->
                 /\ inv' = [inv EXCEPT ![p].outcome = o, ![p].ai = text,
                                       ![p].pc = "raised"]
                 /\ clock' = clock
  /\ UNCHANGED << manager, http, env, entry, raw, logs, context, mock_mode, hash_seed,
                  pc, outcome, ai, log_type, i, results, result, prev, calls >>

\* _enhanced_pattern_analysis of p up to the loop
DetectOf(p) ==
  /\ inv[p].pc = "detect"
  /\ LET type == DetectLogType(inv[p].logs, inv[p].context)
     IN inv' = [inv EXCEPT
                  ![Frame(p)].results = InitialResults(inv[p].logs, type),
                  ![p].log_type = type,
                  ![p].i = 0,
                  ![p].pc = "loop"]
  /\ UNCHANGED << manager, http, env, entry, raw, logs, context, mock_mode, hash_seed, clock,
                  pc, outcome, ai, log_type, i, results, result, prev, calls >>

\* one iteration of the loop of p
ProcessLineOf(p) ==
  /\ inv[p].pc = "loop"
  /\ inv[p].i < Len(inv[p].logs)
  /\ LET r == LineStep(inv[Frame(p)].results, inv[p].logs[inv[p].i + 1],
                       inv[p].log_type)
     IN inv' = [inv EXCEPT
                  ![Frame(p)].results = r,
                  ![p].i = @ + 1,
                  ![p].pc = IF r.exc # "" THEN "raised" ELSE "loop"]
  /\ UNCHANGED << manager, http, env, entry, raw, logs, context, mock_mode, hash_seed, clock,
                  pc, outcome, ai, log_type, i, results, result, prev, calls >>

\* the rest of _enhanced_pattern_analysis of p and the return
FinishOf(p) ==
  /\ inv[p].pc = "loop"
  /\ inv[p].i = Len(inv[p].logs)
  /\ LET r == inv[Frame(p)].results
     IN IF AssemblyExc(r, inv[p].log_type) # ""
        THEN /\ inv' = [inv EXCEPT ![p].pc = "raised"]
             /\ clock' = clock
        ELSE /\ inv' = [inv EXCEPT
                          ![p].result =
                             AssembleResult(r, inv[p].log_type, inv[p].context,
                                            hash_seed, clock),
                          ![p].pc = "done"]
             /\ clock' = clock + 1
  /\ UNCHANGED << manager, http, env, entry, raw, logs, context, mock_mode, hash_seed,
                  pc, outcome, ai, log_type, i, results, result, prev, calls >>

NextShared ==
  \/ \E p \in Callers : CallOf(p)
  \/ \E p \in Callers : ProviderReturnOf(p)
  \/ \E p \in Callers : DetectOf(p)
  \/ \E p \in Callers : ProcessLineOf(p)
  \/ \E p \in Callers : FinishOf(p)

SpecShared == InitShared /\ [][NextShared]_vars

\* =================================================================== claims
RequiredFields ==
  { "status", "severity", "confidence", "log_type", "summary", "issues",
    "root_cause", "recommendations", "fixes", "type_specific_analysis",
    "analysis_method", "timestamp", "context" }

\* number of lines of batch that match the auth-failure rule
AuthLines(batch) ==
  Cardinality({ k \in 1..Len(batch) : SshAuthFailure(batch[k]) })
\* number of lines of batch that fire the unknown-user rule
UnknownLines(batch) ==
  Cardinality({ k \in 1..Len(batch) :
                  UnknownUser(batch[k]) /\ ~SshAuthFailure(batch[k]) })
CapturedCritical(log) == MatchesError(log) /\ IsCritical(log)
CapturedError(log) == MatchesError(log) /\ ~IsCritical(log)
CapturedWarning(log) == ~MatchesError(log) /\ MatchesWarning(log)
\* C1: whenever at least one line was captured into critical_issues, the
\* returned status is CRITICAL and the severity HIGH, in every log type and
\* whatever the other counters hold.
C1_CriticalWins ==
  (pc = "done" /\ results.critical_issues # <<>>)
    => (result.status = "CRITICAL" /\ result.severity = "HIGH")
\* a system batch whose resource rule alone would give WARNING / MEDIUM
C1_Witness ==
  /\ pc = "done"
  /\ log_type = "system"
  /\ results.critical_issues # <<>>
  /\ results.resource_issues > 0
  /\ results.service_failures = 0
  /\ result.status = "CRITICAL"

\* C2: in the security log type with no critical line captured, 10 lines
\* matching the auth-failure rule give CRITICAL / HIGH, 9 give ERROR /
\* MEDIUM, 3 give ERROR / MEDIUM, and 3 or more unknown-user lines give
\* ERROR / MEDIUM when there are fewer than 10 auth failures.
C2_SecurityThresholds ==
  (pc = "done" /\ log_type = "security" /\ results.critical_issues = <<>>)
    => /\ AuthLines(logs) = 10
            => (result.status = "CRITICAL" /\ result.severity = "HIGH")
       /\ AuthLines(logs) \in {3, 9}
            => (result.status = "ERROR" /\ result.severity = "MEDIUM")
       /\ (UnknownLines(logs) >= 3 /\ AuthLines(logs) < 10)
            => (result.status = "ERROR" /\ result.severity = "MEDIUM")
C2_Witness ==
  /\ pc = "done"
  /\ log_type = "security"
  /\ results.critical_issues = <<>>
  /\ AuthLines(logs) = 10
  /\ Len(logs) = 10
  /\ result.status = "CRITICAL"

\* C3: every processed line increments at most one of error_count,
\* warning_count and info_count, a line that matches an error pattern
\* increments error_count only, and after k processed lines the three
\* counters sum to at most k.
C3_OneBucketPerLine ==
  /\ [](pc \in {"loop", "done"}
          => results.error_count + results.warning_count
               + results.info_count <= i)
  /\ [][ (pc = "loop" /\ i' = i + 1)
           => /\ results'.error_count + results'.warning_count
                   + results'.info_count
                 <= results.error_count + results.warning_count
                      + results.info_count + 1
              /\ MatchesError(logs[i + 1])
                   => /\ results'.error_count = results.error_count + 1
                      /\ results'.warning_count = results.warning_count
                      /\ results'.info_count = results.info_count ]_vars
\* a line with both an error and a warning token has just been counted
C3_Witness ==
  /\ pc = "loop"
  /\ i = 1
  /\ MatchesError(logs[1]) /\ MatchesWarning(logs[1])
  /\ results.error_count = 1
  /\ results.warning_count = 0

\* C4: a non-empty hint that contains a keyword of some group decides the
\* log type: the first matching group in the order security, web,
\* application, system, whatever the batch contains.
C4_HintWins ==
  (pc \in {"loop", "done"} /\ Truthy(context))
    => /\ context \in HintSecurity => log_type = "security"
       /\ (context \in HintWeb \ HintSecurity) => log_type = "web"
       /\ (context \in HintApp \ (HintSecurity \cup HintWeb))
            => log_type = "application"
       /\ (context \in HintSystem \ (HintSecurity \cup HintWeb \cup HintApp))
            => log_type = "system"
\* the hint says ssh and every line scores for web only
C4_Witness ==
  /\ pc = "done"
  /\ context = "ssh"
  /\ Len(logs) = MaxLen
  /\ \A k \in 1..Len(logs) :
       WebIndicator(logs[k]) /\ ~SecurityIndicator(logs[k])
  /\ log_type = "security"

\* C5: issues.critical, issues.errors and issues.warnings are the first 3
\* lines captured for their bucket, in batch order, while the summary
\* counts every such line of the batch.
C5_CapsAndCounts ==
  pc = "done"
    => /\ result.issues.critical = Take(SelectSeq(logs, CapturedCritical), 3)
       /\ result.issues.errors = Take(SelectSeq(logs, CapturedError), 3)
       /\ result.issues.warnings = Take(SelectSeq(logs, CapturedWarning), 3)
       /\ result.summary.critical_issues = Len(SelectSeq(logs, CapturedCritical))
       /\ result.summary.error_count = Len(SelectSeq(logs, MatchesError))
       /\ result.summary.warning_count = Len(SelectSeq(logs, CapturedWarning))
\* ten critical lines: three entries, a count of ten
C5_Witness ==
  /\ pc = "done"
  /\ Len(SelectSeq(logs, CapturedCritical)) = 10
  /\ Len(result.issues.critical) = 3
  /\ result.summary.critical_issues = 10

\* C6: the result of the engine has every required top-level field, and
\* summary.total_logs is the number of lines of the cleaned batch the entry
\* point submitted.
C6_CompleteResult ==
  pc = "done"
    => /\ RequiredFields \subseteq DOMAIN result
       /\ result.summary.total_logs = Len(Cleaned(entry, raw))
\* cleaning dropped a line of the request and kept another
C6_Witness ==
  /\ pc = "done"
  /\ Len(raw.lines) = 2
  /\ Len(Cleaned(entry, raw)) = 1
  /\ Cleaned(entry, raw)[1] \notin { <<"No valid logs found">>, <<"Empty log">> }
  /\ result.summary.total_logs = 1

\* C7: running the engine again on the same batch and hint returns a result
\* that is identical in every field but timestamp, the listed suspicious
\* identifiers and their order included.
C7_Idempotent ==
  (pc = "done" /\ prev # NoResult)
    => [result EXCEPT !.timestamp = 0] = [prev EXCEPT !.timestamp = 0]

\* C8: the engine raises no exception on any list of lines, the empty list
\* included, with any hint, and what it returns is a complete result.
C8_NeverRaises ==
  /\ pc # "raised"
  /\ results.exc = ""
  /\ pc = "done" => (result # NoResult /\ RequiredFields \subseteq DOMAIN result)
\* the web error rate of an empty batch
C8_Witness ==
  /\ pc = "done"
  /\ logs = <<>>
  /\ log_type = "web"
  /\ result.type_specific_analysis.error_rate.tenths = 0

FailureOutcomes == Outcomes \ { "json_object" }
RaisingOutcomes == Outcomes \ { "json_object", "not_json" }

\* C9 as stated: whenever the configured provider path fails in any way,
\* the unparsable reply included, analyze_logs returns the result of the
\* deterministic engine and raises nothing.
C9_AnyFailureFallsBack ==
  /\ (~mock_mode /\ outcome \in FailureOutcomes) => pc # "raised"
  /\ (pc = "done" /\ ~mock_mode /\ outcome \in FailureOutcomes)
       => result = EnhancedPatternAnalysis(logs, context, hash_seed,
                                           result.timestamp)

\* C9 amended: when the provider path fails with an exception other than
\* the JSON decoding error of the reply, analyze_logs returns the result of
\* the deterministic engine and raises nothing; a reply that is not JSON is
\* answered with the result of _parse_ai_text_response instead.
C9_RaisingFailureFallsBack ==
  /\ (~mock_mode /\ outcome \in FailureOutcomes) => pc # "raised"
  /\ (pc = "done" /\ ~mock_mode /\ outcome \in RaisingOutcomes)
       => result = EnhancedPatternAnalysis(logs, context, hash_seed,
                                           result.timestamp)
  /\ (pc = "done" /\ ~mock_mode /\ outcome = "not_json")
       => result = ParseAiTextResponse(ai, logs, result.timestamp)
\* the reply had no choices and the engine answered for a non-empty batch
C9_Witness ==
  /\ pc = "done"
  /\ ~mock_mode
  /\ outcome = "no_choices"
  /\ Len(logs) > 0
  /\ result.analysis_method = "enhanced_security_pattern_matching"

\* C10: no entry point starts the detector on a batch of zero lines.
C10_NeverEmptyBatch ==
  pc \in {"detect", "loop", "done"} => Len(logs) >= 1

\* the timestamp a returned result carries (0 for a provider object)
StampOf(res) == IF "timestamp" \in DOMAIN res THEN res.timestamp ELSE 0

\* C11: invocations interleaved on the shared agent do not interfere: while
\* an invocation is in its pass its counters and buckets are those of its own
\* lines alone, it raises nothing, and it returns what analyze_logs returns
\* for its own batch and hint when run alone.
C11_NoInterference ==
  \A p \in DOMAIN inv :
    /\ inv[p].pc # "raised"
    /\ inv[p].pc = "loop"
         => inv[p].results = Classify(inv[p].logs, inv[p].i, inv[p].log_type)
    /\ inv[p].pc = "done"
         => inv[p].result =
              AnalyzeLogsAlone(inv[p].logs, inv[p].context, mock_mode,
                               inv[p].outcome, inv[p].ai, hash_seed,
                               StampOf(inv[p].result))
\* two overlapping invocations on batches of different log types have both
\* returned an engine result, one of them after awaiting the provider
C11_Witness ==
  /\ inv # <<>>
  /\ inv[1].pc = "done" /\ inv[2].pc = "done"
  /\ inv[1].overlapped /\ inv[2].overlapped
  /\ inv[1].outcome = "raises"
  /\ inv[1].result.analysis_method = "enhanced_security_pattern_matching"
  /\ inv[2].result.analysis_method = "enhanced_web_pattern_matching"

\* C12 as stated: the one-line batch of the port-conflict line with no hint
\* gives CRITICAL / HIGH, a log type that is application or general, and
\* issues.critical holding exactly that line.
C12_PortLineAppOrGeneral ==
  (pc = "done" /\ logs = <<L_critical>> /\ context = None)
    => /\ result.status = "CRITICAL" /\ result.severity = "HIGH"
       /\ result.log_type \in {"application", "general"}
       /\ result.issues.critical = <<L_critical>>

\* C12 amended: the same batch gives CRITICAL / HIGH and issues.critical
\* holding exactly that line, and its log type is system, because the line
\* contains the system keyword "process".
C12_PortLineIsSystem ==
  (pc = "done" /\ logs = <<L_critical>> /\ context = None)
    => /\ result.status = "CRITICAL" /\ result.severity = "HIGH"
       /\ result.log_type = "system"
       /\ result.issues.critical = <<L_critical>>
C12_Witness ==
  /\ pc = "done"
  /\ logs = <<L_critical>>
  /\ context = None
  /\ result.log_type = "system"
  /\ result.summary.critical_issues = 1

\* the identifiers of the lines of batch that satisfy Sel and carry rhost=
RhostsOf(batch, Sel(_)) ==
  { FirstRhost(batch[k]) :
      k \in { j \in 1..Len(batch) : Sel(batch[j]) /\ Has(batch[j], RhostFragments) } }
\* number of lines of batch that satisfy Sel and carry user=root
RootsOf(batch, Sel(_)) ==
  Cardinality({ k \in 1..Len(batch) : Sel(batch[k]) /\ RootAccess(batch[k]) })
AnyLine(log) == TRUE

\* C13 as stated: in the security log type auth_failures counts the lines
\* that match the auth-failure rule, suspicious_ips holds the rhost=
\* identifier of each line of the batch and root_attempts counts each line
\* with user=root; six auth-failure lines with two identifiers and one root
\* attempt give security, 6, 2 identifiers and 1.
C13_ExtractsFromEachLine ==
  (pc = "done" /\ log_type = "security")
    => /\ results.auth_failures = AuthLines(logs)
       /\ results.suspicious_ips = RhostsOf(logs, AnyLine)
       /\ results.root_attempts = RootsOf(logs, AnyLine)

\* C13 amended: the identifier and the root attempt are taken only from the
\* lines that match the auth-failure rule (sshd ... authentication failure);
\* a batch of auth-failure lines only is given the security log type, and
\* six of them with two identifiers and one root attempt give 6, 2 and 1.
C13_ExtractsFromAuthFailureLines ==
  /\ (pc = "done" /\ log_type = "security")
       => /\ results.auth_failures = AuthLines(logs)
          /\ result.summary.auth_failures = AuthLines(logs)
          /\ results.suspicious_ips = RhostsOf(logs, SshAuthFailure)
          /\ result.summary.suspicious_ips
               = Cardinality(RhostsOf(logs, SshAuthFailure))
          /\ results.root_attempts = RootsOf(logs, SshAuthFailure)
  /\ (pc = "done" /\ Len(logs) > 0 /\ AuthLines(logs) = Len(logs))
       => log_type = "security"
\* five auth-failure lines from one identifier, then one from another for root
C13_Witness ==
  /\ pc = "done"
  /\ context = None
  /\ Len(logs) = 6
  /\ AuthLines(logs) = 6
  /\ result.log_type = "security"
  /\ result.summary.auth_failures = 6
  /\ result.summary.suspicious_ips = 2
  /\ results.root_attempts = 1

\* C14: the provider client is called only when mock_mode is false, and
\* mock_mode is false only when the provider package imported, an API key
\* is set and is not the placeholder, and the client was constructed without
\* error; otherwise analyze_logs returns the result of the deterministic
\* engine, whose analysis_method names the pattern-matching path.
C14_ProviderOnlyWhenConfigured ==
  /\ ~mock_mode
       <=> /\ env.MISTRAL_AVAILABLE
           /\ env.MISTRAL_API_KEY \notin { None, "", Placeholder }
           /\ ~env.client_raises
  /\ (pc = "provider" \/ outcome # "") => ~mock_mode
  /\ (pc = "done" /\ mock_mode)
       => /\ result = EnhancedPatternAnalysis(logs, context, hash_seed,
                                              result.timestamp)
          /\ result.analysis_method
               = "enhanced_" \o log_type \o "_pattern_matching"
\* the package imported and the client would construct, but the key is the
\* placeholder: the engine answered without a provider call
C14_Witness ==
  /\ pc = "done"
  /\ env.MISTRAL_AVAILABLE
  /\ env.MISTRAL_API_KEY = Placeholder
  /\ ~env.client_raises
  /\ outcome = ""
  /\ Len(logs) > 0
  /\ result.analysis_method = "enhanced_security_pattern_matching"

\* number of lines of batch on which Rule is the first rule of its log type
\* to match, the rules tried before it being Earlier
FirstMatches(batch, Rule(_), Earlier(_)) ==
  Cardinality({ k \in 1..Len(batch) : Rule(batch[k]) /\ ~Earlier(batch[k]) })
NoRule(log) == FALSE

\* the decision table of the status resolver, rule by rule, on the lines
\* of the batch
TableOutcome(batch, type) ==
  LET critical == Len(SelectSeq(batch, CapturedCritical))
      errors == Len(SelectSeq(batch, MatchesError))
      warnings == Len(SelectSeq(batch, CapturedWarning))
      auth == AuthLines(batch)
      unknown == UnknownLines(batch)
      client == FirstMatches(batch, Is4xx, NoRule)
      server == FirstMatches(batch, Is5xx, Is4xx)
      deployment == FirstMatches(batch, DeploymentError, NoRule)
      database == FirstMatches(batch, DatabaseError, DeploymentError)
      service == FirstMatches(batch, ServiceFailure, NoRule)
      resource == FirstMatches(batch, ResourceIssue, ServiceFailure)
  IN CASE critical > 0 -> <<"CRITICAL", "HIGH">>
       [] critical = 0 /\ type = "security" /\ auth >= 10 -> <<"CRITICAL", "HIGH">>
       [] critical = 0 /\ type = "security" /\ auth < 10
            /\ (auth >= 3 \/ unknown >= 3) -> <<"ERROR", "MEDIUM">>
       [] critical = 0 /\ type = "web" /\ server >= 10 -> <<"CRITICAL", "HIGH">>
       [] critical = 0 /\ type = "web" /\ server < 10
            /\ (server > 0 \/ client >= 20) -> <<"ERROR", "MEDIUM">>
       [] critical = 0 /\ type = "application"
            /\ (deployment > 0 \/ database > 0) -> <<"ERROR", "MEDIUM">>
       [] critical = 0 /\ type = "system" /\ service > 0 -> <<"ERROR", "MEDIUM">>
       [] critical = 0 /\ type = "system" /\ service = 0 /\ resource > 0
            -> <<"WARNING", "MEDIUM">>
       [] OTHER -> IF errors > 0 THEN <<"ERROR", "MEDIUM">>
                   ELSE IF warnings > 0 THEN <<"WARNING", "LOW">>
                   ELSE <<"HEALTHY", "LOW">>

\* C15: for every log type and every counter record the pass produces, the
\* status and severity are those of the ordered decision table: a captured
\* critical line first, then the thresholds of the detected log type only
\* (application: deployment or database issues give ERROR / MEDIUM; system:
\* service failures give ERROR / MEDIUM, else resource issues WARNING /
\* MEDIUM), then error_count, warning_count, HEALTHY / LOW.
C15_DecisionTable ==
  pc = "done"
    => <<result.status, result.severity>> = TableOutcome(logs, log_type)
\* a system batch with a service failure and a resource issue
C15_Witness ==
  /\ pc = "done"
  /\ log_type = "system"
  /\ results.critical_issues = <<>>
  /\ results.service_failures > 0
  /\ results.resource_issues > 0
  /\ result.status = "ERROR" /\ result.severity = "MEDIUM"

\* C16: in the web log type with no critical line captured, 10 or more
\* server errors give CRITICAL / HIGH; 1 to 9 server errors, or 20 or more
\* client errors, give ERROR / MEDIUM; with no server error and at most 19
\* client errors the rules on the general counters decide.
C16_WebThresholds ==
  (pc = "done" /\ log_type = "web" /\ results.critical_issues = <<>>)
    => LET client == FirstMatches(logs, Is4xx, NoRule)
           server == FirstMatches(logs, Is5xx, Is4xx)
           errors == Len(SelectSeq(logs, MatchesError))
           warnings == Len(SelectSeq(logs, CapturedWarning))
       IN /\ server >= 10
               => (result.status = "CRITICAL" /\ result.severity = "HIGH")
          /\ (server \in 1..9 \/ (server = 0 /\ client >= 20))
               => (result.status = "ERROR" /\ result.severity = "MEDIUM")
          /\ (server = 0 /\ client <= 19)
               => <<result.status, result.severity>>
                    = IF errors > 0 THEN <<"ERROR", "MEDIUM">>
                      ELSE IF warnings > 0 THEN <<"WARNING", "LOW">>
                      ELSE <<"HEALTHY", "LOW">>
\* exactly 20 client errors and no server error
C16_Witness ==
  /\ pc = "done"
  /\ log_type = "web"
  /\ results["4xx_errors"] = 20
  /\ results["5xx_errors"] = 0
  /\ results.error_count = 0
  /\ result.status = "ERROR" /\ result.severity = "MEDIUM"

\* C18: the log type depends on the hint and on the first 20 lines of the
\* batch only, so two batches that agree on their first 20 lines get the
\* same log type with the same hint, while the pass counts the lines of
\* the whole batch.
C18_WindowOfTwenty ==
  /\ pc \in {"loop", "done"}
       => log_type = DetectLogType(SubSeq(logs, 1, Min(Len(logs), 20)), context)
  /\ pc = "done"
       => /\ i = Len(logs)
          /\ result.summary.total_logs = Len(logs)
          /\ result.summary.error_count = Len(SelectSeq(logs, MatchesError))
          /\ log_type = "web"
               => /\ result.summary["4xx_errors"]
                       = FirstMatches(logs, Is4xx, NoRule)
                  /\ result.summary["5xx_errors"]
                       = FirstMatches(logs, Is5xx, Is4xx)
          /\ log_type = "system"
               => result.summary.service_failures
                    = FirstMatches(logs, ServiceFailure, NoRule)
\* twenty lines without any keyword, then security lines: the log type is
\* general and the security lines are counted as errors
C18_Witness ==
  /\ pc = "done"
  /\ context = None
  /\ Len(logs) > 20
  /\ \A k \in 1..20 : logs[k] = L_plain
  /\ SecurityIndicator(logs[21])
  /\ result.log_type = "general"
  /\ result.summary.error_count = Len(logs) - 20

\* the score of the log type named type over the first 20 lines of batch
Score(batch, type) ==
  Cardinality({ k \in 1..Len(batch) : k <= 20 /\ Indicator(type, batch[k]) })
ScoreOrder == <<"security", "web", "application", "system">>
NoGroup(hint) ==
  ~Truthy(hint) \/ hint \notin (HintSecurity \cup HintWeb \cup HintApp \cup HintSystem)

\* C17: with a hint that is absent, empty or without a keyword of any group,
\* the log type is general when the four scores are all zero, and otherwise
\* the first log type, in the order security, web, application, system,
\* whose score is the highest; one line can count for several log types.
C17_HighestScoreFirstInOrder ==
  (pc \in {"loop", "done"} /\ NoGroup(context))
    => IF \A k \in 1..4 : Score(logs, ScoreOrder[k]) = 0
       THEN log_type = "general"
       ELSE \E k \in 1..4 :
              /\ log_type = ScoreOrder[k]
              /\ \A j \in 1..4 : Score(logs, ScoreOrder[j]) <= Score(logs, ScoreOrder[k])
              /\ \A j \in 1..(k - 1) :
                   Score(logs, ScoreOrder[j]) < Score(logs, ScoreOrder[k])
\* a line that scores for security and for web, and a line that scores for
\* system: three log types tie and security is returned
C17_Witness ==
  /\ pc = "done"
  /\ context = "Multi-type failure simulation"
  /\ Len(logs) = 2
  /\ SecurityIndicator(logs[1]) /\ WebIndicator(logs[1])
  /\ Score(logs, "security") = 1
  /\ Score(logs, "web") = 1
  /\ Score(logs, "system") = 1
  /\ log_type = "security"

\* the counters of the rules of a log type, in the order the rules are tried
RuleCounters(type) ==
  CASE type = "security" -> <<"auth_failures", "unknown_users">>
    [] type = "web" -> <<"4xx_errors", "5xx_errors", "slow_requests">>
    [] type = "application" ->
         <<"deployment_issues", "database_issues", "api_errors",
           "performance_issues">>
    [] type = "system" ->
         <<"service_failures", "resource_issues", "network_issues">>
    [] OTHER -> <<>>
\* the pattern of the rule that increments counter matches the line
RuleMatches(counter, log) ==
  CASE counter = "auth_failures" -> SshAuthFailure(log)
    [] counter = "unknown_users" -> UnknownUser(log)
    [] counter = "4xx_errors" -> Is4xx(log)
    [] counter = "5xx_errors" -> Is5xx(log)
    [] counter = "slow_requests" -> SlowRequest(log)
    [] counter = "deployment_issues" -> DeploymentError(log)
    [] counter = "database_issues" -> DatabaseError(log)
    [] counter = "api_errors" -> ApiError(log)
    [] counter = "performance_issues" -> PerformanceIssue(log)
    [] counter = "service_failures" -> ServiceFailure(log)
    [] counter = "resource_issues" -> ResourceIssue(log)
    [] OTHER -> NetworkIssue(log)
RECURSIVE SumOf(_, _, _)
SumOf(r, counters, n) ==
  IF n = 0 THEN 0 ELSE SumOf(r, counters, n - 1) + r[counters[n]]
RuleSum(r, type) == SumOf(r, RuleCounters(type), Len(RuleCounters(type)))

\* C19: each processed line increments the counter of the first rule of the
\* detected log type that matches it and of no other rule, whether or not
\* the line was counted as an error, a warning or an info line; so after k
\* processed lines the rule counters of the log type sum to at most k.
C19_OneRulePerLine ==
  /\ [](pc \in {"loop", "done"} => RuleSum(results, log_type) <= i)
  /\ [][ (pc = "loop" /\ i' = i + 1)
           => \A j \in 1..Len(RuleCounters(log_type)) :
                LET counter == RuleCounters(log_type)[j]
                    first == /\ RuleMatches(counter, logs[i + 1])
                             /\ \A m \in 1..(j - 1) :
                                  ~RuleMatches(RuleCounters(log_type)[m],
                                               logs[i + 1])
                IN results'[counter]
                     = results[counter] + (IF first THEN 1 ELSE 0) ]_vars
\* a web line that matches the client-error rule and the slow-request rule
\* has been counted as a client error only
C19_Witness ==
  /\ pc = "loop"
  /\ i = 1
  /\ log_type = "web"
  /\ Is4xx(logs[1]) /\ SlowRequest(logs[1])
  /\ results["4xx_errors"] = 1
  /\ results.slow_requests = 0

\* the two recommendation rules of each log type, in declaration order:
\* whether the rule fires on the counters r, the first entry it appends and
\* the number of entries it appends
FirstRecRule(r, type) ==
  CASE type = "security" ->
         [ fires |-> Get(r, "auth_failures") >= 5, entries |-> 2,
           head |-> "High number of authentication failures detected" ]
    [] type = "web" ->
         [ fires |-> Get(r, "5xx_errors") > 0, entries |-> 2,
           head |-> "Server errors detected - check application health" ]
    [] type = "application" ->
         [ fires |-> Get(r, "deployment_issues") > 0, entries |-> 2,
           head |-> "Deployment issues detected" ]
    [] type = "system" ->
         [ fires |-> Get(r, "service_failures") > 0, entries |-> 1,
           head |-> "System service failures detected" ]
    [] OTHER -> [ fires |-> FALSE, entries |-> 0, head |-> "" ]
SecondRecRule(r, type) ==
  CASE type = "security" ->
         [ fires |-> SuspiciousIps(r) # {}, entries |-> 1,
           head |-> "Block suspicious IPs:" ]
    [] type = "web" ->
         [ fires |-> Get(r, "slow_requests") > 0, entries |-> 1,
           head |-> "Slow requests detected - optimize performance" ]
    [] type = "application" ->
         [ fires |-> Get(r, "database_issues") > 0, entries |-> 1,
           head |-> "Database connectivity issues" ]
    [] type = "system" ->
         [ fires |-> Get(r, "resource_issues") > 0, entries |-> 1,
           head |-> "System resource issues detected" ]
    [] OTHER -> [ fires |-> FALSE, entries |-> 0, head |-> "" ]
PositiveRec == <<"No critical issues detected">>
PositiveFix == "Continue monitoring system health"
GenericRec == <<"System errors require attention">>

\* C20: recommendations and fixes are never empty; the positive entry and
\* its fix are emitted exactly when neither a rule of the log type nor the
\* error_count rule fired, and are then the only recommendation and the
\* only fix; otherwise the entries of the rules that fired come in
\* declaration order, the error note last.
C20_RecommendationsInOrder ==
  pc = "done"
    => LET recs == result.recommendations
           fixes == result.fixes
           first == FirstRecRule(results, log_type)
           second == SecondRecRule(results, log_type)
           generic == results.error_count > 0
           n1 == IF first.fires THEN first.entries ELSE 0
           n2 == IF second.fires THEN second.entries ELSE 0
           n3 == IF generic THEN 1 ELSE 0
       IN /\ recs # <<>> /\ fixes # <<>>
          /\ IF ~first.fires /\ ~second.fires /\ ~generic
             THEN recs = <<PositiveRec>> /\ fixes = <<PositiveFix>>
             ELSE /\ \A k \in 1..Len(recs) : recs[k] # PositiveRec
                  /\ \A k \in 1..Len(fixes) : fixes[k] # PositiveFix
                  /\ Len(recs) = n1 + n2 + n3
                  /\ first.fires => recs[1][1] = first.head
                  /\ second.fires => recs[n1 + 1][1] = second.head
                  /\ generic => recs[n1 + n2 + 1] = GenericRec
                  /\ \A k \in 1..(n1 + n2) : recs[k] # GenericRec
                  /\ generic
                       => /\ fixes[Len(fixes) - 1] = "Review error logs for patterns"
                          /\ fixes[Len(fixes)]
                               = "Check system health and resources"
\* a web batch with a client error and a warning, on which no rule fires
C20_Witness ==
  /\ pc = "done"
  /\ log_type = "web"
  /\ results["4xx_errors"] > 0
  /\ results.warning_count > 0
  /\ result.recommendations = <<PositiveRec>>
  /\ result.fixes = <<PositiveFix>>

\* ------------------------------------------------------------------ C21
\* the numeric counters _enhanced_pattern_analysis adds for the domain
NumericCounters(lt) ==
  CASE lt = "security" ->
         { "security_events", "auth_failures", "brute_force_attempts",
           "unknown_users", "root_attempts" }
    [] lt = "application" ->
         { "deployment_issues", "performance_issues", "database_issues",
           "api_errors" }
    [] lt = "system" ->
         { "resource_issues", "service_failures", "disk_issues",
           "network_issues" }
    [] lt = "web" ->
         { "http_errors", "4xx_errors", "5xx_errors", "slow_requests" }
    [] OTHER -> {}
NonZeroCounters(r, lt) ==
  { k \in NumericCounters(lt) : r[k] > 0 }
  \cup (IF SuspiciousIps(r) # {} THEN { "suspicious_ips" } ELSE {})
NormalCause(lt) == <<Clause(0, "Normal " \o lt \o " activity patterns")>>

\* C21: root_cause has one clause for every non-zero domain-specific counter
\* of the detected domain, then the general-errors clause when error_count > 0;
\* it is the "Normal <domain> activity patterns" string only if no
\* domain-specific counter and no error count is non-zero.
C21_ClausePerNonZeroCounter ==
  pc = "done"
    => LET rc == result.root_cause
           nonzero == NonZeroCounters(results, log_type)
           general == IF results.error_count > 0 THEN 1 ELSE 0
       IN /\ rc = NormalCause(log_type)
               => nonzero = {} /\ results.error_count = 0
          /\ rc # NormalCause(log_type)
               => /\ Len(rc) = Cardinality(nonzero) + general
                  /\ general = 1
                       => rc[Len(rc)]
                            = Clause(results.error_count, "general errors")

\* ------------------------------------------------- many source addresses
\* The engine on security batches whose authentication failures come from up
\* to MaxIps distinct source addresses.
AuthFrom(id) == <<"sshd", "authentication failure", "rhost=" \o id>>
IpBatches ==
  { [k \in 1..n |-> AuthFrom(IpOf(k))] \o Run(L_unknown, u) \o Run(L_auth, d) :
      n \in 0..MaxIps, u \in 0..1, d \in 0..1 }
\* two of the orders a process can give the addresses
IpSeeds ==
  { <<"192.168.1.100", "10.0.0.50">> \o [k \in 1..MaxIps |-> IpOf(k)],
    [k \in 1..MaxIps |-> IpOf(MaxIps + 1 - k)] \o <<"10.0.0.50", "192.168.1.100">> }

InitIps ==
  /\ InitCommon
  /\ env = Unconfigured
  /\ inv = <<>>
  /\ entry = "direct"
  /\ raw = [kind |-> "list", lines |-> <<>>]
  /\ logs \in IpBatches
  /\ context \in { None, "ssh" }
  /\ mock_mode = TRUE
  /\ hash_seed \in IpSeeds
  /\ pc = "idle"

NextIps == Call \/ Detect \/ ProcessLine \/ Finish

SpecIps == InitIps /\ [][NextIps]_vars

\* ------------------------------------------------------------------ C22
RECURSIVE CaptureOrder(_)
\* the source addresses of a batch in the order the classifier first adds them
CaptureOrder(batch) ==
  IF batch = <<>> THEN <<>>
  ELSE LET before == CaptureOrder(SubSeq(batch, 1, Len(batch) - 1))
           log == batch[Len(batch)]
       IN IF SshAuthFailure(log) /\ Has(log, RhostFragments)
             /\ \A k \in 1..Len(before) : before[k] # FirstRhost(log)
          THEN Append(before, FirstRhost(log))
          ELSE before

\* C22 as stated: every domain-specific bucket of a security result
\* (issues.security and issues.suspicious_ips) retains at most 5 entries, the
\* first captured.
C22_AtMostFiveFirstCaptured ==
  (pc = "done" /\ log_type = "security")
    => /\ result.issues.security = Take(results.security_issues, 5)
       /\ Len(result.issues.suspicious_ips) <= 5
       /\ result.issues.suspicious_ips = Take(CaptureOrder(logs), 5)

\* C22 amended: issues.security retains the first 5 captured lines;
\* issues.suspicious_ips retains min(10, number of distinct addresses)
\* distinct addresses of the captured set, in the order the process
\* enumerates the set.
C22_FiveLinesTenAddresses ==
  (pc = "done" /\ log_type = "security")
    => LET sec == result.issues.security
           ips == result.issues.suspicious_ips
       IN /\ sec = Take(results.security_issues, 5)
          /\ Len(sec) <= 5
          /\ Len(ips) = Min(Cardinality(results.suspicious_ips), 10)
          /\ \A j \in 1..Len(ips) : ips[j] \in results.suspicious_ips
          /\ \A j, k \in 1..Len(ips) : j # k => ips[j] # ips[k]
          /\ ips = Take(ListOfSet(results.suspicious_ips, hash_seed), 10)
\* more than ten addresses and more than five captured lines
C22_Witness ==
  /\ pc = "done"
  /\ log_type = "security"
  /\ Cardinality(results.suspicious_ips) > 10
  /\ Len(results.security_issues) > 5
  /\ Len(result.issues.suspicious_ips) = 10
  /\ Len(result.issues.security) = 5

\* ------------------------------------------------------------------ C23
\* C23 as stated: whenever error_count > 0 at the end of the pass, the
\* resolved status is ERROR or CRITICAL, in every domain.
C23_ErrorsNeverBelowError ==
  (pc = "done" /\ results.error_count > 0)
    => result.status \in { "ERROR", "CRITICAL" }

\* a system batch with a resource issue, no service failure, no critical line
ResourceOnly(r, lt) ==
  /\ lt = "system"
  /\ r.critical_issues = <<>>
  /\ r.service_failures = 0
  /\ r.resource_issues > 0

\* C23 amended: whenever error_count > 0 at the end of the pass the resolved
\* status is ERROR or CRITICAL, except in the system domain with a resource
\* issue, no service failure and no critical line, where it is WARNING/MEDIUM.
C23_ErrorsBelowErrorOnlyOnResourceIssue ==
  (pc = "done" /\ results.error_count > 0)
    => IF ResourceOnly(results, log_type)
       THEN result.status = "WARNING" /\ result.severity = "MEDIUM"
       ELSE result.status \in { "ERROR", "CRITICAL" }
\* both branches happen: an error line beside a resource issue in the system
\* domain; the witness is the exception
C23_Witness ==
  /\ pc = "done"
  /\ results.error_count > 0
  /\ ResourceOnly(results, log_type)
  /\ result.status = "WARNING"

\* ------------------------------------------------------------------ C24
\* C24: whenever the resolved status is ERROR or CRITICAL, recommendations
\* contains at least one rule-fired entry (it is not just the positive
\* message) and root_cause is not the "Normal <domain> activity patterns"
\* string.
C24_VerdictAndAdviceAgree ==
  (pc = "done" /\ result.status \in { "ERROR", "CRITICAL" })
    => /\ result.recommendations # <<PositiveRec>>
       /\ result.root_cause # NormalCause(log_type)

\* ------------------------------------------------------------------ C25
StatusPairs ==
  { <<"HEALTHY", "LOW">>, <<"WARNING", "LOW">>, <<"WARNING", "MEDIUM">>,
    <<"ERROR", "MEDIUM">>, <<"CRITICAL", "HIGH">> }

\* C25: the engine only returns the pairs (HEALTHY, LOW), (WARNING, LOW),
\* (WARNING, MEDIUM), (ERROR, MEDIUM) and (CRITICAL, HIGH); severity is HIGH
\* if and only if status is CRITICAL; status HEALTHY implies error_count = 0,
\* warning_count = 0 and no critical line captured.
C25_StatusSeverityPairs ==
  pc = "done"
    => /\ <<result.status, result.severity>> \in StatusPairs
       /\ result.severity = "HIGH" <=> result.status = "CRITICAL"
       /\ result.status = "HEALTHY"
            => /\ results.error_count = 0
               /\ results.warning_count = 0
               /\ results.critical_issues = <<>>
\* a non-empty batch with information lines only, resolved to HEALTHY
C25_Witness ==
  /\ pc = "done"
  /\ result.status = "HEALTHY"
  /\ result.severity = "LOW"
  /\ results.total_logs > 0
  /\ results.info_count > 0

\* ------------------------------------------------------------------ C26
\* C26: after every processed line the aggregate counters equal the sum of
\* their parts: error_count = |critical_issues| + |error_issues|,
\* warning_count = |warning_issues|, info_count = |info_issues|; in the web
\* domain http_errors = 4xx_errors + 5xx_errors; in the security domain
\* security_events = auth_failures + unknown_users,
\* |suspicious_ips| <= auth_failures and root_attempts <= auth_failures.
C26_CountersAreSums ==
  (pc \in { "loop", "done" } /\ results.exc = "")
    => /\ results.error_count
            = Len(results.critical_issues) + Len(results.error_issues)
       /\ results.warning_count = Len(results.warning_issues)
       /\ results.info_count = Len(results.info_issues)
       /\ log_type = "web"
            => results.http_errors
                 = results["4xx_errors"] + results["5xx_errors"]
       /\ log_type = "security"
            => /\ results.security_events
                    = results.auth_failures + results.unknown_users
               /\ Cardinality(results.suspicious_ips) <= results.auth_failures
               /\ results.root_attempts <= results.auth_failures
\* a web pass that has counted a client error and a server error
C26_Witness ==
  /\ pc = "loop"
  /\ i = 2
  /\ log_type = "web"
  /\ results["4xx_errors"] = 1
  /\ results["5xx_errors"] = 1
  /\ results.http_errors = 2

\* ------------------------------------------------- the engine, at rest
EngineIdle ==
  /\ clock = 0
  /\ outcome = ""
  /\ ai = <<>>
  /\ log_type = "general"
  /\ i = 0
  /\ results = InitialResults(<<>>, "general")
  /\ result = NoResult
  /\ prev = NoResult
  /\ calls = 0
  /\ env = Unconfigured
  /\ inv = <<>>
  /\ entry = "direct"
  /\ raw = [kind |-> "list", lines |-> <<>>]
  /\ logs = <<>>
  /\ context = None
  /\ mock_mode = TRUE
  /\ hash_seed = <<"192.168.1.100", "10.0.0.50">>
  /\ pc = "idle"

\* ------------------------------------- ConnectionManager (Backend/app.py)
\* The handlers are coroutines on one event loop: the code between two
\* awaits runs without interruption, and an action is one such stretch.
InList(seq, x) == \E k \in 1..Len(seq) : seq[k] = x
\* list.remove(x): the first occurrence goes
Remove(seq, x) ==
  LET k == CHOOSE k \in 1..Len(seq) :
             seq[k] = x /\ \A m \in 1..(k - 1) : seq[m] # x
  IN SubSeq(seq, 1, k - 1) \o SubSeq(seq, k + 1, Len(seq))
\* what a send on a websocket whose peer is gone raises: the framework's
\* WebSocketDisconnect or another exception, by framework version
SendFailures == { "WebSocketDisconnect", "RuntimeError" }

\* websocket_endpoint -> manager.connect: await websocket.accept().
\* Websockets are numbered in the order they arrive.
Accept(w) ==
  /\ websockets[w].pc = "new"
  /\ IF w = 1 THEN TRUE ELSE websockets[w - 1].pc # "new"
  /\ websockets' = [websockets EXCEPT ![w].pc = "accepted"]
  /\ UNCHANGED << engine, http, active_connections, broadcasts >>

\* manager.connect after the accept: self.active_connections.append(websocket);
\* the handler then awaits the status calls of its loop
Append_(w) ==
  /\ websockets[w].pc = "accepted"
  /\ active_connections' = Append(active_connections, w)
  /\ websockets' = [websockets EXCEPT ![w].pc = "loop"]
  /\ UNCHANGED << engine, http, broadcasts >>

\* the peer of an accepted websocket goes away
PeerGone(w) ==
  /\ websockets[w].pc \notin { "new" }
  /\ websockets[w].open
  /\ websockets' = [websockets EXCEPT ![w].open = FALSE]
  /\ UNCHANGED << engine, http, active_connections, broadcasts >>

\* the loop body of websocket_endpoint up to asyncio.sleep(5): the periodic
\* send_personal_message; "except WebSocketDisconnect: manager.disconnect"
SendStatus(w) ==
  /\ websockets[w].pc = "loop"
  /\ IF websockets[w].open
     THEN /\ websockets' = [websockets EXCEPT ![w].pc = "sleep"]
          /\ UNCHANGED active_connections
     ELSE \E exc \in SendFailures :
            IF exc = "WebSocketDisconnect"
            THEN IF InList(active_connections, w)
                 THEN /\ active_connections' = Remove(active_connections, w)
                      /\ websockets' = [websockets EXCEPT ![w].pc = "closed"]
                 ELSE /\ websockets' = [websockets EXCEPT ![w].pc = "ValueError"]
                      /\ UNCHANGED active_connections
            ELSE /\ websockets' = [websockets EXCEPT ![w].pc = exc]
                 /\ UNCHANGED active_connections
  /\ UNCHANGED << engine, http, broadcasts >>

\* asyncio.sleep(5) returns
Wake(w) ==
  /\ websockets[w].pc = "sleep"
  /\ websockets' = [websockets EXCEPT ![w].pc = "loop"]
  /\ UNCHANGED << engine, http, active_connections, broadcasts >>

\* "for connection in self.active_connections": the list iterator at index
\* idx over the list as it is now; the loop body suspends in send_json
ForNext(b, idx, list) ==
  IF idx < Len(list)
  THEN [broadcasts[b] EXCEPT !.pc = "send", !.idx = idx + 1,
                             !.connection = list[idx + 1]]
  ELSE [broadcasts[b] EXCEPT !.pc = "returned", !.idx = idx,
                             !.connection = NoConnection]

\* the endpoint b reaches "await manager.broadcast(...)"
Broadcast(b) ==
  /\ broadcasts[b].pc = "idle"
  /\ broadcasts' =
       [broadcasts EXCEPT
          ![b] = [ForNext(b, 0, active_connections)
                    EXCEPT !.start = active_connections]]
  /\ UNCHANGED << engine, http, active_connections, websockets >>

\* "await connection.send_json(message)" of broadcast b is resumed: the
\* message was sent, or the bare except removes the connection; then the
\* iterator moves on
SendReturns(b) ==
  LET c == broadcasts[b].connection
      idx == broadcasts[b].idx
  IN /\ broadcasts[b].pc = "send"
     /\ IF websockets[c].open
        THEN /\ websockets' = [websockets EXCEPT ![c].got = @ \cup { b }]
             /\ broadcasts' =
                  [broadcasts EXCEPT ![b] = ForNext(b, idx, active_connections)]
             /\ UNCHANGED active_connections
        ELSE IF InList(active_connections, c)
        THEN /\ active_connections' = Remove(active_connections, c)
             /\ broadcasts' =
                  [broadcasts EXCEPT
                     ![b] = [ForNext(b, idx, Remove(active_connections, c))
                               EXCEPT !.failed = @ \cup { c }]]
             /\ UNCHANGED websockets
        ELSE /\ broadcasts' =
                  [broadcasts EXCEPT ![b].pc = "ValueError",
                                     ![b].failed = @ \cup { c }]
             /\ UNCHANGED << active_connections, websockets >>
     /\ UNCHANGED << engine, http >>

InitManager == EngineIdle /\ ManagerIdle /\ HttpIdle

NextManager ==
  \/ \E w \in Sockets :
       Accept(w) \/ Append_(w) \/ PeerGone(w) \/ SendStatus(w) \/ Wake(w)
  \/ \E b \in Broadcasters : Broadcast(b) \/ SendReturns(b)

SpecManager == InitManager /\ [][NextManager]_vars

\* ------------------------------------------------------------------ C27
\* C27: after broadcast returns, every connection that was in
\* active_connections when it started has either been sent the message or
\* been removed, and no connection whose send failed remains in
\* active_connections.
C27_BroadcastReachesOrRemoves ==
  \A b \in Broadcasters :
    broadcasts[b].pc = "returned"
      => /\ \A k \in 1..Len(broadcasts[b].start) :
              LET c == broadcasts[b].start[k]
              IN b \in websockets[c].got \/ ~InList(active_connections, c)
         /\ \A c \in broadcasts[b].failed : ~InList(active_connections, c)

\* ------------------------------------------------------------------ C28
Occurrences(seq, x) == Cardinality({ k \in 1..Len(seq) : seq[k] = x })
\* the connection was taken out of the list, by disconnect or by a broadcast
WasRemoved(w) ==
  \/ websockets[w].pc = "closed"
  \/ \E b \in Broadcasters : w \in broadcasts[b].failed

\* C28: under any interleaving of websocket handlers and broadcasts, neither
\* disconnect nor broadcast tries to remove a connection that is no longer
\* in active_connections (ValueError), and every connected websocket is in
\* active_connections exactly once until it is removed.
C28_NoRemovalOfAbsentConnection ==
  /\ \A w \in Sockets : websockets[w].pc # "ValueError"
  /\ \A b \in Broadcasters : broadcasts[b].pc # "ValueError"
  /\ \A w \in Sockets :
       /\ Occurrences(active_connections, w) <= 1
       /\ (websockets[w].pc \in { "loop", "sleep" } /\ ~WasRemoved(w))
            => Occurrences(active_connections, w) = 1

\* --------------------- validation_exception_handler (simple_app.py)
\* the logs values of a JSON body: absent, a str, a list, or another value
BodyLogs ==
  (RawInputs \ { BigInput }) \cup { [kind |-> "other", lines |-> <<>>] }
\* the request bodies: empty, not JSON, a JSON number, a JSON array, or a
\* JSON object with or without "logs"
Bodies ==
  { [kind |-> k, logs |-> [kind |-> "absent", lines |-> <<>>], context |-> ""] :
      k \in { "empty", "not_json", "json_number", "json_array" } }
  \cup { [kind |-> "json_object", logs |-> v, context |-> c] :
           v \in BodyLogs, c \in { "", "ssh" } }

\* log_list of the handler: a str is split in lines, stripped and filtered;
\* a list is stripped and filtered; any other value v gives [str(v)]
HandlerLogList(v) ==
  IF v.kind \in { "str", "list" } THEN StripAll(v.lines)
  ELSE << <<"str(logs)">> >>

\* mistral_agent.analyze_logs(log_list, context) without await: analyze_logs
\* is "async def", so the call makes a coroutine object and runs nothing
AnalyzeLogsNotAwaited(log_list, ctx) ==
  [type |-> "coroutine", logs |-> log_list, context |-> ctx]
\* JSONResponse(content=...) renders content with json.dumps at construction
JsonSerializable(content) == content.analysis.type # "coroutine"

FallbackAnswer ==
  [status_code |-> 200, success |-> FALSE,
   error |-> "Input validation bypassed", fallback_available |-> TRUE]

\* the handler after "body = await request.body()"
HandlerAnswer(b) ==
  IF b.kind = "empty" THEN FallbackAnswer            \* if body: is false
  ELSE IF b.kind = "not_json" THEN FallbackAnswer    \* json.loads raises
  ELSE IF b.kind = "json_number" THEN FallbackAnswer \* 'logs' in data raises
  ELSE IF b.kind = "json_array" THEN FallbackAnswer  \* 'logs' in data is False
  ELSE IF b.logs.kind = "absent" THEN FallbackAnswer
  ELSE IF HandlerLogList(b.logs) = <<>> THEN FallbackAnswer
  ELSE LET log_list == HandlerLogList(b.logs)
           content ==
             [status_code |-> 200, success |-> TRUE,
              analysis |-> AnalyzeLogsNotAwaited(log_list, b.context),
              processed_logs |-> Len(log_list),
              message |-> "Analysis completed with permissive validation"]
       IN IF JsonSerializable(content) THEN content
          ELSE FallbackAnswer               \* TypeError, "except: pass"

InitHandler ==
  /\ EngineIdle
  /\ ManagerIdle
  /\ request \in { [kind |-> "RequestValidationError", body |-> b] : b \in Bodies }
  /\ hpc = "raised"
  /\ response = NoResponse
  /\ fs = InitialFs

\* body = await request.body()
ReadBody ==
  /\ hpc = "raised"
  /\ hpc' = "body"
  /\ UNCHANGED << engine, manager, request, response, fs >>

\* the rest of validation_exception_handler
Answer ==
  /\ hpc = "body"
  /\ response' = HandlerAnswer(request.body)
  /\ hpc' = "answered"
  /\ UNCHANGED << engine, manager, request, fs >>

NextHandler == ReadBody \/ Answer

SpecHandler == InitHandler /\ [][NextHandler]_vars

\* ------------------------------------------------------------------ C29
\* the body is JSON whose logs value yields at least one non-empty line
Extractable(b) ==
  /\ b.kind = "json_object"
  /\ b.logs.kind # "absent"
  /\ HandlerLogList(b.logs) # <<>>

\* C29: when request validation fails but the body is JSON whose logs value
\* yields at least one non-empty line, validation_exception_handler answers
\* with status 200, success = true and the analysis record; the
\* success = false "Input validation bypassed" answer is given only when no
\* logs can be extracted.
C29_PermissiveAnalysis ==
  hpc = "answered"
    => IF Extractable(request.body)
       THEN /\ response.status_code = 200
            /\ response.success = TRUE
            /\ "analysis" \in DOMAIN response
       ELSE response = FallbackAnswer

\* ------------------------------ /autofix/apply-local (simple_app.py)
\* The paths a request names, as sequences of components; "/" in front
\* makes the path absolute, <<>> is the empty path.
RequestPaths ==
  { <<"src", "f.py">>, <<"src", "new", "g.py">>, <<>>,
    <<"..", "app-old", "f.py">>, <<"..", "..", "etc", "passwd">>,
    <<"/", "etc", "passwd">> }

\* root / p: an absolute p replaces root
Join(root, p) ==
  IF p # <<>> /\ p[1] = "/" THEN Tail(p) ELSE root \o p
RECURSIVE Resolve(_)
\* Path.resolve(): ".." components are folded (there are no symbolic links)
Resolve(q) ==
  IF q = <<>> THEN <<>>
  ELSE LET front == Resolve(SubSeq(q, 1, Len(q) - 1))
           last == q[Len(q)]
       IN IF last = ".."
          THEN SubSeq(front, 1, Max(Len(front) - 1, 0))
          ELSE Append(front, last)
\* a.startswith(b) on the component names of the model
NamePrefix(b, a) == a = b \/ <<b, a>> \in { <<"app", "app-old">> }
\* str(target).startswith(str(root)): a comparison of the two strings
StrStartsWith(target, root) ==
  LET n == Len(root)
  IN /\ Len(target) >= n
     /\ SubSeq(target, 1, n - 1) = SubSeq(root, 1, n - 1)
     /\ NamePrefix(root[n], target[n])
\* the directories above path, nearest last
Parents(path) == { SubSeq(path, 1, k) : k \in 0..(Len(path) - 1) }

\* one iteration of the loop of _safe_apply_edits: <<file system, entry>>
ApplyEdit(f, e) ==
  LET target == Resolve(Join(Root, e.path))
      made == [f EXCEPT !.dirs = @ \cup Parents(target)]
  IN IF ~StrStartsWith(target, Root)
     THEN <<f, [file |-> e.path, status |-> "error", message |-> "outside repo"]>>
     ELSE IF \E d \in Parents(target) : d \in DOMAIN f.files
     THEN <<f, [file |-> e.path, status |-> "error", message |-> "FileExistsError"]>>
     ELSE IF target \in made.dirs
     THEN <<made, [file |-> e.path, status |-> "error",
                   message |-> "IsADirectoryError"]>>
     ELSE << [made EXCEPT !.files =
                [p \in DOMAIN @ \cup { target } |->
                   IF p = target THEN e.content ELSE @[p]]],
             [file |-> e.path, status |-> "updated", message |-> ""] >>

\* one iteration of the loop of _safe_delete_files
DeleteFile(f, p) ==
  LET target == Resolve(Join(Root, p))
  IN IF ~StrStartsWith(target, Root)
     THEN <<f, [file |-> p, status |-> "error", message |-> "outside repo"]>>
     ELSE IF target \in DOMAIN f.files
     THEN << [f EXCEPT !.files = [q \in DOMAIN @ \ { target } |-> @[q]]],
             [file |-> p, status |-> "deleted", message |-> ""] >>
     ELSE IF target \in f.dirs
     THEN <<f, [file |-> p, status |-> "skipped", message |-> "not a file"]>>
     ELSE <<f, [file |-> p, status |-> "skipped", message |-> "not found"]>>

RECURSIVE SafeApplyEdits(_, _)
\* _safe_apply_edits(edits) on the file system f: <<file system, results>>
SafeApplyEdits(f, edits) ==
  IF edits = <<>> THEN <<f, <<>>>>
  ELSE LET done == SafeApplyEdits(f, SubSeq(edits, 1, Len(edits) - 1))
           step == ApplyEdit(done[1], edits[Len(edits)])
       IN <<step[1], Append(done[2], step[2])>>
RECURSIVE SafeDeleteFiles(_, _)
\* _safe_delete_files(paths)
SafeDeleteFiles(f, paths) ==
  IF paths = <<>> THEN <<f, <<>>>>
  ELSE LET done == SafeDeleteFiles(f, SubSeq(paths, 1, Len(paths) - 1))
           step == DeleteFile(done[1], paths[Len(paths)])
       IN <<step[1], Append(done[2], step[2])>>

InitAutofix ==
  /\ EngineIdle
  /\ ManagerIdle
  /\ request \in
       { [kind |-> "AutoFixApplyRequest",
          edits |-> [k \in 1..Len(es) |-> [path |-> es[k], content |-> "new"]],
          deletes |-> ds, test_command |-> None] :
           es \in SeqsUpTo(RequestPaths, MaxEdits),
           ds \in SeqsUpTo(RequestPaths, MaxEdits) }
  /\ hpc = "received"
  /\ response = NoResponse
  /\ fs = InitialFs

\* autofix_apply_local with no test_command: the edits, then the deletes
ApplyLocal ==
  /\ hpc = "received"
  /\ LET edited == SafeApplyEdits(fs, request.edits)
         deleted == SafeDeleteFiles(edited[1], request.deletes)
     IN /\ fs' = deleted[1]
        /\ response' = [status_code |-> 200, success |-> TRUE,
                        edits |-> edited[2], deletes |-> deleted[2]]
  /\ hpc' = "answered"
  /\ UNCHANGED << engine, manager, request >>

NextAutofix == ApplyLocal

SpecAutofix == InitAutofix /\ [][NextAutofix]_vars

\* ------------------------------------------------------------------ C30
\* the resolved path lies in the directory root or below it
Inside(target, root) ==
  Len(target) >= Len(root) /\ SubSeq(target, 1, Len(root)) = root
OutsideRepo(p) ==
  [file |-> p, status |-> "error", message |-> "outside repo"]

\* C30: _safe_apply_edits and _safe_delete_files never write or delete a
\* file whose resolved path lies outside the repository root (sibling
\* directories whose name starts with the root's name included); every such
\* request is reported as an "outside repo" error and leaves the file system
\* unchanged, and an error on one entry does not stop the remaining entries.
C30_NothingOutsideRoot ==
  hpc = "answered"
    => /\ \A p \in DOMAIN fs.files \cup DOMAIN InitialFs.files :
            ~Inside(p, Root)
              => /\ p \in DOMAIN fs.files
                 /\ p \in DOMAIN InitialFs.files
                 /\ fs.files[p] = InitialFs.files[p]
       /\ Len(response.edits) = Len(request.edits)
       /\ Len(response.deletes) = Len(request.deletes)
       /\ \A k \in 1..Len(request.edits) :
            ~Inside(Resolve(Join(Root, request.edits[k].path)), Root)
              => response.edits[k] = OutsideRepo(request.edits[k].path)
       /\ \A k \in 1..Len(request.deletes) :
            ~Inside(Resolve(Join(Root, request.deletes[k])), Root)
              => response.deletes[k] = OutsideRepo(request.deletes[k])

====
